---- MODULE Spec2Model ----
(***************************************************************************)
(* Model of the WeChat channel plugin's inbound message poller             *)
(* (WeChatMessagePoller, src/unnamed/part_004 lines 119-480).              *)
(*                                                                         *)
(* One poller instance is modelled together with its environment: the     *)
(* host calling start() and stop(), the abort signal, the timers created   *)
(* by setTimeout, and the backend answering getRobotInfo, getContactList,  *)
(* getChatRoomList and getChatHistory.  Every step of the model is the     *)
(* synchronous run of code between two await points.                       *)
(***************************************************************************)
EXTENDS Integers, Sequences, FiniteSets, TLC

\* ------------------------------------------------------------------ bounds
\* Number of start() calls that get past the two early returns.
MaxStarts == 2
\* Number of poll cycles that begin.
MaxCycles == 2
\* Largest wall-clock second Date.now() returns; the poller is constructed
\* at second 2.
MaxNow == 2
\* Longest chat-history page the backend returns.
MaxPageLen == 2
\* Seen-set high-water mark and number of keys evicted, scaled down from the
\* program's 10000 and 5000 (part_004 lines 413 and 415).
SeenHighWater == 2
SeenEvictCount == 1

\* --------------------------------------------------------------- constants
DEFAULT_MAX_POLL_CONTACTS == 50
DEFAULT_POLLING_INTERVAL_MS == 3000

Null == "null"

\* The wxid the backend reports for the robot when getRobotInfo succeeds.
RobotWxidValue == "wxid_robot"

Contacts == {"c1", "c2"}

\* ------------------------------------------------------------ data helpers
Range(s) == {s[i] : i \in 1..Len(s)}

RECURSIVE Reverse(_)
Reverse(s) == IF s = <<>> THEN <<>> ELSE Append(Reverse(Tail(s)), Head(s))

RECURSIVE MaxOf(_)
MaxOf(S) ==
  LET x == CHOOSE y \in S : TRUE
  IN IF S = {x} THEN x
     ELSE LET m == MaxOf(S \ {x}) IN IF x > m THEN x ELSE m

\* A chat-history item with the fields the poller reads.
HistoryItem(id, t, src, sender, recalled, ty) ==
  [msg_id |-> id, created_at |-> t, message_source |-> src,
   sender_wxid |-> sender, is_recalled |-> recalled, type |-> ty]

\* The messages the backend can hold in a contact's history.
HistoryOf(contactId) ==
  IF contactId = "c1"
  THEN { HistoryItem(1, 1, "robot", RobotWxidValue, FALSE, 1),
         HistoryItem(2, 2, "user", "wxid_a", FALSE, 1),
         HistoryItem(3, 3, "user", "wxid_b", FALSE, 1) }
  ELSE { HistoryItem(3, 3, "user", "wxid_b", FALSE, 1) }

HistoryItems == UNION { HistoryOf(c) : c \in Contacts }

IsNewestFirst(p) ==
  \A i \in 1..(Len(p) - 1) : p[i].created_at >= p[i + 1].created_at

\* The pages getChatHistory can answer with for a contact: newest first, no
\* item twice.
Pages(contactId) ==
  { p \in UNION { [1..n -> HistoryOf(contactId)] : n \in 0..MaxPageLen } :
      /\ \A i, j \in 1..Len(p) : i # j => p[i] # p[j]
      /\ IsNewestFirst(p) }

\* `${contactId}:${item.msg_id}`
MessageKey(contactId, msg_id) == <<contactId, msg_id>>

Keys == { MessageKey(c, it.msg_id) : c \in Contacts, it \in HistoryItems }

CreatedAtOf(key) == (CHOOSE it \in HistoryItems : it.msg_id = key[2]).created_at

\* The polling configurations the poller is constructed with; an optional
\* number is <<>> when unset and <<n>> when set.
PollingConfigs ==
  { [pollContactIds |-> <<"c1", "c2">>, pollAllContacts |-> FALSE,
     maxPollContacts |-> <<>>, pollingIntervalMs |-> <<5000>>],
    [pollContactIds |-> <<>>, pollAllContacts |-> TRUE,
     maxPollContacts |-> <<>>, pollingIntervalMs |-> <<>>],
    [pollContactIds |-> <<>>, pollAllContacts |-> FALSE,
     maxPollContacts |-> <<>>, pollingIntervalMs |-> <<>>] }

\* Answers of getContactList("friend") and getChatRoomList: a thrown error
\* (ok = FALSE) or the list of wechat_ids.
ApiError == [ok |-> FALSE, data |-> <<>>]
ApiOk(d) == [ok |-> TRUE, data |-> d]
FriendResponses == { ApiError, ApiOk(<<>>), ApiOk(<<"c1">>) }
RoomResponses == { ApiError, ApiOk(<<"c2">>) }

\* Answers of getRobotInfo: a thrown error, or data.wechat_id (possibly absent).
RobotInfoResponses == { "error", Null, RobotWxidValue }

\* ------------------------------------------------------------------- state
VARIABLES
  config,             \* options.pollingConfig, fixed at construction
  isRunning,          \* this.isRunning
  pollTimer,          \* this.pollTimer: Null, "armed" (a handle to a pending
                      \* timer) or "stale" (a handle to a timer that fired)
  orphanTimers,       \* pending timers whose handle this.pollTimer lost
  timerDelay,         \* the delay given to the last setTimeout, 0 before it
  lastPollTimestamps, \* this.lastPollTimestamps: a map contact -> seconds
  seenMessageIds,     \* this.seenMessageIds in insertion order
  robotWxid,          \* this.robotWxid
  aborted,            \* options.abortSignal.aborted
  listeners,          \* abort listeners registered by start()
  starts,             \* start() invocations: where each one is awaiting
  nStarts,            \* start() invocations that got past the early returns
  cycles,             \* timer callbacks that entered poll(): position and locals
  nCycles,            \* poll cycles begun
  clock,              \* last value of Math.floor(Date.now() / 1000)
  delivered,          \* per key: how often onMessage was invoked with it
  evicted,            \* per key: how often the trim removed it from the seen-set
  startedAt,          \* `now` of the first start() that seeded cursors, 0 before
  interrupted,        \* the cycles in flight during which stop() has run
  op,                 \* the operation that took the last step
  inbound,            \* one run of handleWeChatInboundMessage: its arguments,
                      \* where it is awaiting, the host calls it has made
  tokenRun,           \* one call of resolveWeChatToken: arguments and result
  chunkRun,           \* one call of outbound.chunker: arguments, locals, result
  gatewayRun,         \* one account behind gateway.startAccount / stopAccount
  requestRun,         \* one call of sendMessageWeChat or probeWeChat
  resolveRun,         \* the contact resolution of successive poll cycles
  pageRun             \* one contact's pages going through the filters of poll()

vars ==
  <<config, isRunning, pollTimer, orphanTimers, timerDelay, lastPollTimestamps,
    seenMessageIds, robotWxid, aborted, listeners, starts, nStarts, cycles,
    nCycles, clock, delivered, evicted, startedAt, interrupted, op, inbound, tokenRun,
    chunkRun, gatewayRun, requestRun, resolveRun, pageRun>>

\* The state of the poller, and the state outside it.
pollerVars ==
  <<config, isRunning, pollTimer, orphanTimers, timerDelay, lastPollTimestamps,
    seenMessageIds, robotWxid, aborted, listeners, starts, nStarts, cycles,
    nCycles, clock, delivered, evicted, startedAt, interrupted, op>>

outsidePoller ==
  <<inbound, tokenRun, chunkRun, gatewayRun, requestRun, resolveRun, pageRun>>

\* The state outside one unit and the poller.
outsideInbound == <<tokenRun, chunkRun, gatewayRun, requestRun, resolveRun, pageRun>>
outsideToken == <<inbound, chunkRun, gatewayRun, requestRun, resolveRun, pageRun>>
outsideChunker == <<inbound, tokenRun, gatewayRun, requestRun, resolveRun, pageRun>>
outsideGateway == <<inbound, tokenRun, chunkRun, requestRun, resolveRun, pageRun>>
outsideRequest == <<inbound, tokenRun, chunkRun, gatewayRun, resolveRun, pageRun>>
outsideResolve == <<inbound, tokenRun, chunkRun, gatewayRun, requestRun, pageRun>>
outsidePage == <<inbound, tokenRun, chunkRun, gatewayRun, requestRun, resolveRun>>

StartIds == 1..MaxStarts
CycleIds == 1..MaxCycles

IdleStart == [pc |-> "idle", now |-> 0]

IdleCycle ==
  [pc |-> "idle", contactIds |-> <<>>, idx |-> 0, polled |-> Null,
   items |-> <<>>, lastPollTimestamp |-> 0, seenBefore |-> {},
   newMessages |-> <<>>, pos |-> 0, emitted |-> <<>>, outcome |-> "none"]

PollerInit ==
  /\ config \in PollingConfigs
  /\ isRunning = FALSE
  /\ pollTimer = Null
  /\ orphanTimers = 0
  /\ timerDelay = 0
  /\ lastPollTimestamps = [c \in {} |-> 0]
  /\ seenMessageIds = <<>>
  /\ robotWxid = Null
  /\ aborted = FALSE
  /\ listeners = 0
  /\ starts = [s \in StartIds |-> IdleStart]
  /\ nStarts = 0
  /\ cycles = [k \in CycleIds |-> IdleCycle]
  /\ nCycles = 0
  /\ clock = 2
  /\ delivered = [key \in Keys |-> 0]
  /\ evicted = [key \in Keys |-> 0]
  /\ startedAt = 0
  /\ interrupted = {}
  /\ op = "init"

\* Neither the inbound handler nor the token resolution, the chunker, the
\* gateway hooks or the send and probe calls are part of a run of the poller
\* on its own.
NoInbound == [pc |-> "none"]
NoTokenRun == [pc |-> "none"]
NoChunkRun == [pc |-> "none"]
NoGatewayRun == [pc |-> "none"]
NoRequestRun == [pc |-> "none"]
NoResolveRun == [pc |-> "none"]
NoPageRun == [pc |-> "none"]

Init ==
  /\ PollerInit
  /\ inbound = NoInbound
  /\ tokenRun = NoTokenRun
  /\ chunkRun = NoChunkRun
  /\ gatewayRun = NoGatewayRun
  /\ requestRun = NoRequestRun
  /\ resolveRun = NoResolveRun
  /\ pageRun = NoPageRun

\* ------------------------------------------------------- the poller's code
\* StartReturnsEarly without the check of the running flag.
StartReturnsEarly_NoCheck == FALSE

\* start(), line 190: `if (this.isRunning) return;`
StartReturnsEarly == isRunning

\* StartSeesAbort without the check of the signal.
StartSeesAbort_NoCheck == FALSE

\* start(), lines 197-198: the signal is already aborted.
StartSeesAbort == aborted

\* stop(): the running flag and the timer handle it leaves.  clearTimeout
\* cancels only the timer this.pollTimer refers to.
stop == [isRunning |-> FALSE, pollTimer |-> Null]

\* The cycles in flight: past the timer callback's checks and not yet back
\* from poll().
InFlight(cs) == {k \in DOMAIN cs : cs[k].pc \notin {"idle", "done"}}

\* stop() touches no cycle; the model notes the cycles in flight it ran
\* during.
Interrupt(i, cs) == i \cup InFlight(cs)

\* schedulePoll(), lines 256-257: the delay of the timer.
IntervalMs(cfg) ==
  IF cfg.pollingIntervalMs = <<>> THEN DEFAULT_POLLING_INTERVAL_MS
  ELSE cfg.pollingIntervalMs[1]

\* schedulePoll() with the delay doubled from the second timer on.
schedulePoll_Backoff(running, h, o) ==
  IF ~running
  THEN [pollTimer |-> h, orphanTimers |-> o, delay |-> timerDelay]
  ELSE [pollTimer |-> "armed",
        orphanTimers |-> IF h = "armed" THEN o + 1 ELSE o,
        delay |-> IF timerDelay = 0 THEN IntervalMs(config) ELSE 2 * IntervalMs(config)]

\* schedulePoll(): the timer handle, the orphaned pending timers and the
\* delay of the last setTimeout it leaves, given the running flag, the handle
\* h and the orphan count o before it.  setTimeout overwrites the handle
\* without clearing the timer it held.
schedulePoll(running, h, o) ==
  IF ~running
  THEN [pollTimer |-> h, orphanTimers |-> o, delay |-> timerDelay]
  ELSE [pollTimer |-> "armed",
        orphanTimers |-> IF h = "armed" THEN o + 1 ELSE o,
        delay |-> IntervalMs(config)]

Take(s, n) == SubSeq(s, 1, IF n < Len(s) THEN n ELSE Len(s))

\* resolveContactIds() with an explicit list or without pollAllContacts
\* awaits nothing; with pollAllContacts it awaits the directory.
NeedsDirectory(cfg) == Len(cfg.pollContactIds) = 0 /\ cfg.pollAllContacts

resolveContactIds(cfg, friendsResponse, roomsResponse) ==
  IF Len(cfg.pollContactIds) > 0 THEN cfg.pollContactIds
  ELSE IF cfg.pollAllContacts
  THEN LET maxContacts == IF cfg.maxPollContacts = <<>>
                          THEN DEFAULT_MAX_POLL_CONTACTS
                          ELSE cfg.maxPollContacts[1]
           friends == Take(friendsResponse.data, maxContacts)
       IN IF ~friendsResponse.ok THEN <<>>
          ELSE IF Len(friends) < maxContacts /\ roomsResponse.ok
          THEN friends \o Take(roomsResponse.data, maxContacts - Len(friends))
          ELSE friends
  ELSE <<>>

\* this.lastPollTimestamps.get(contactId) ?? 0
CursorOf(m, contactId) == IF contactId \in DOMAIN m THEN m[contactId] ELSE 0

MapSet(m, contactId, v) ==
  [x \in (DOMAIN m) \cup {contactId} |-> IF x = contactId THEN v ELSE m[x]]

\* start(), lines 230-232: every resolved contact's cursor becomes `now`.
SeedCursors(m, contactIds, now) ==
  [x \in (DOMAIN m) \cup Range(contactIds) |->
     IF x \in Range(contactIds) THEN now ELSE m[x]]

\* AdvanceCursor with an empty page resetting the cursor.
AdvanceCursor_EmptyResets(m, contactId, items) ==
  IF Len(items) > 0
  THEN MapSet(m, contactId, MaxOf({items[i].created_at : i \in 1..Len(items)}))
  ELSE MapSet(m, contactId, 0)

\* poll(), lines 402-405: the cursor after a page has been processed.
AdvanceCursor(m, contactId, items) ==
  IF Len(items) > 0
  THEN MapSet(m, contactId, MaxOf({items[i].created_at : i \in 1..Len(items)}))
  ELSE m

\* AlreadySeen without the seen-set lookup.
AlreadySeen_NoLookup(seen, key) == FALSE

\* poll(), line 367: this.seenMessageIds.has(messageKey)
AlreadySeen(seen, key) == key \in Range(seen)

\* SeenAdd adding nothing.
SeenAdd_Never(seen, key) == seen

\* Set.add keeps insertion order and ignores a key it holds.
SeenAdd(seen, key) == IF key \in Range(seen) THEN seen ELSE Append(seen, key)

\* InWindow with the window opening one second late.
InWindow_OffByOne(item, lastPollTimestamp) == ~(item.created_at <= lastPollTimestamp + 1)

\* poll(), line 371: `if (item.created_at <= lastPollTimestamp) return false;`
InWindow(item, lastPollTimestamp) == ~(item.created_at <= lastPollTimestamp)

\* poll(), lines 364-373: the filter over the page, in page order; it adds
\* every unseen key to the seen-set and keeps the unseen items in the window.
RECURSIVE FilterNew(_, _, _, _)
FilterNew(items, contactId, seen, lastPollTimestamp) ==
  IF items = <<>> THEN [seen |-> seen, kept |-> <<>>]
  ELSE LET item == Head(items)
           key == MessageKey(contactId, item.msg_id)
       IN IF AlreadySeen(seen, key)
          THEN FilterNew(Tail(items), contactId, seen, lastPollTimestamp)
          ELSE LET r == FilterNew(Tail(items), contactId, SeenAdd(seen, key),
                                  lastPollTimestamp)
               IN IF InWindow(item, lastPollTimestamp)
                  THEN [r EXCEPT !.kept = <<item>> \o r.kept]
                  ELSE r

\* NewMessages without the reversal.
NewMessages_NoReverse(kept) == kept

\* poll(), line 374: .reverse()
NewMessages(kept) == Reverse(kept)

\* PassesContentFilters without the check of the recall mark.
PassesContentFilters_NoRecallCheck(item, robot) ==
  /\ item.message_source # "robot"
  /\ ~(robot # Null /\ item.sender_wxid = robot)
  /\ item.type = 1

\* poll(), lines 379-388: the checks of the delivery loop.
PassesContentFilters(item, robot) ==
  /\ item.message_source # "robot"
  /\ ~(robot # Null /\ item.sender_wxid = robot)
  /\ ~item.is_recalled
  /\ item.type = 1

\* Index of the first item at or after `from` the delivery loop does not
\* skip, 0 when there is none.
NextDeliverable(batch, from, robot) ==
  LET S == {j \in from..Len(batch) : PassesContentFilters(batch[j], robot)}
  IN IF S = {} THEN 0 ELSE CHOOSE j \in S : \A i \in S : j <= i

\* poll(), lines 413-419: the seen-set after the end-of-cycle trim.
TrimSeen(seen) ==
  IF Len(seen) > SeenHighWater
  THEN SubSeq(seen, (IF SeenEvictCount < Len(seen) THEN SeenEvictCount ELSE Len(seen)) + 1,
              Len(seen))
  ELSE seen

\* ---------------------------------------------------------------- actions
\* Each action sets every variable; the operators below set the variables
\* named in their comments and leave the others to the action using them.

\* The record of a cycle whose timer callback has returned: its locals are
\* gone.
Finished(c) == [IdleCycle EXCEPT !.pc = "done"]

\* ContactLoopContinues with an error of the last contact leaving the loop.
ContactLoopContinues_ErrorEndsLoop(c) ==
  /\ c.outcome \notin {"failed", "threw"}
  /\ c.idx < Len(c.contactIds) /\ isRunning /\ ~aborted

\* poll(), lines 345-347 and 406-408: the loop goes on to the next contact
\* while one is left and the poller runs unaborted; the catch of the
\* per-contact try only logs, whatever the outcome of the contact before.
ContactLoopContinues(c) ==
  c.idx < Len(c.contactIds) /\ isRunning /\ ~aborted

\* The contact loop of poll() at its head, lines 345-347 (c.idx contacts are
\* done), and the code after the loop: the trim (413-419), the return into
\* the timer callback and its schedulePoll() (line 272).
\* Sets cycles, interrupted, seenMessageIds, evicted, pollTimer, orphanTimers.
LoopHead(k, c, seen, h, o) ==
  IF ContactLoopContinues(c)
  THEN /\ cycles' = [cycles EXCEPT ![k] = [c EXCEPT !.idx = c.idx + 1, !.pc = "fetch"]]
       /\ interrupted' = interrupted
       /\ seenMessageIds' = seen
       /\ evicted' = evicted
       /\ pollTimer' = h
       /\ orphanTimers' = o
       /\ timerDelay' = timerDelay
  ELSE /\ cycles' = [cycles EXCEPT ![k] = Finished(c)]
       /\ interrupted' = interrupted \ {k}
       /\ seenMessageIds' = TrimSeen(seen)
       /\ evicted' = [key \in Keys |->
                        IF key \in Range(seen) \ Range(TrimSeen(seen))
                        THEN evicted[key] + 1 ELSE evicted[key]]
       /\ pollTimer' = schedulePoll(isRunning, h, o).pollTimer
       /\ orphanTimers' = schedulePoll(isRunning, h, o).orphanTimers
       /\ timerDelay' = schedulePoll(isRunning, h, o).delay

\* poll() once resolveContactIds() has answered, lines 340-341.
\* Sets cycles, interrupted, seenMessageIds, evicted, pollTimer, orphanTimers.
EnterLoop(k, c, h, o) ==
  IF Len(c.contactIds) = 0
  THEN /\ cycles' = [cycles EXCEPT ![k] = Finished(c)]
       /\ interrupted' = interrupted \ {k}
       /\ UNCHANGED <<seenMessageIds, evicted>>
       /\ pollTimer' = schedulePoll(isRunning, h, o).pollTimer
       /\ orphanTimers' = schedulePoll(isRunning, h, o).orphanTimers
       /\ timerDelay' = schedulePoll(isRunning, h, o).delay
  ELSE LoopHead(k, c, seenMessageIds, h, o)

\* The delivery loop of poll(), lines 376-398, from index `from` of the
\* batch up to the next `await this.options.onMessage(...)`, or, when no item
\* is left, the cursor update (402-405) and the next iteration of the contact
\* loop.  Sets cycles, seenMessageIds, evicted, pollTimer, orphanTimers,
\* lastPollTimestamps, delivered.
DeliverLoop(k, c, seen, from) ==
  LET j == NextDeliverable(c.newMessages, from, robotWxid)
  IN IF j > 0
     THEN /\ cycles' = [cycles EXCEPT ![k] =
                          [c EXCEPT !.pc = "deliver", !.pos = j,
                                    !.emitted = Append(c.emitted, c.newMessages[j])]]
          /\ delivered' = [delivered EXCEPT
                             ![MessageKey(c.polled, c.newMessages[j].msg_id)] = @ + 1]
          /\ seenMessageIds' = seen
          /\ UNCHANGED <<evicted, interrupted, pollTimer, orphanTimers, timerDelay,
                         lastPollTimestamps>>
     ELSE /\ lastPollTimestamps' = AdvanceCursor(lastPollTimestamps, c.polled, c.items)
          /\ delivered' = delivered
          /\ LoopHead(k, [c EXCEPT !.outcome = "ok", !.pos = Len(c.newMessages)],
                      seen, pollTimer, orphanTimers)

\* The host calls start(), lines 189-211, up to `await getRobotInfo(...)`.
StartCall ==
  /\ op' = "start"
  /\ IF StartReturnsEarly
     THEN UNCHANGED <<outsidePoller, config, isRunning, pollTimer, orphanTimers, timerDelay, lastPollTimestamps,
                      seenMessageIds, robotWxid, aborted, listeners, starts, nStarts,
                      cycles, nCycles, clock, delivered, evicted, startedAt, interrupted>>
     ELSE IF StartSeesAbort
     THEN /\ isRunning' = stop.isRunning
          /\ pollTimer' = stop.pollTimer
          /\ UNCHANGED <<outsidePoller, config, orphanTimers, timerDelay, lastPollTimestamps, seenMessageIds,
                         robotWxid, aborted, listeners, starts, nStarts, cycles,
                         nCycles, clock, delivered, evicted, startedAt, interrupted>>
     ELSE /\ nStarts < MaxStarts
          /\ isRunning' = TRUE
          /\ listeners' = listeners + 1
          /\ nStarts' = nStarts + 1
          /\ starts' = [starts EXCEPT ![nStarts + 1].pc = "robotInfo"]
          /\ UNCHANGED <<outsidePoller, config, pollTimer, orphanTimers, timerDelay, lastPollTimestamps,
                         seenMessageIds, robotWxid, aborted, cycles, nCycles, clock,
                         delivered, evicted, startedAt, interrupted>>

\* The host calls stop(), lines 241-247.
StopCall ==
  /\ op' = "stop"
  /\ isRunning' = stop.isRunning
  /\ pollTimer' = stop.pollTimer
  /\ interrupted' = Interrupt(interrupted, cycles)
  /\ UNCHANGED <<outsidePoller, config, orphanTimers, timerDelay, lastPollTimestamps, seenMessageIds, robotWxid,
                 aborted, listeners, starts, nStarts, cycles, nCycles, clock,
                 delivered, evicted, startedAt>>

\* The abort signal fires; every listener registered by start() (lines
\* 202-205, once) calls stop() synchronously.
Abort ==
  /\ ~aborted
  /\ op' = "abort"
  /\ aborted' = TRUE
  /\ listeners' = 0
  /\ IF listeners > 0
     THEN isRunning' = stop.isRunning /\ pollTimer' = stop.pollTimer
     ELSE UNCHANGED <<isRunning, pollTimer>>
  /\ interrupted' = Interrupt(interrupted, cycles)
  /\ UNCHANGED <<outsidePoller, config, orphanTimers, timerDelay, lastPollTimestamps, seenMessageIds, robotWxid,
                 starts, nStarts, cycles, nCycles, clock, delivered, evicted, startedAt>>

\* poll() up to its first await, lines 339-357, for cycle k.
\* Sets cycles, interrupted, seenMessageIds, evicted, pollTimer, orphanTimers.
BeginPoll(k, h, o) ==
  IF NeedsDirectory(config)
  THEN /\ cycles' = [cycles EXCEPT ![k] = [IdleCycle EXCEPT !.pc = "resolve"]]
       /\ pollTimer' = h
       /\ orphanTimers' = o
       /\ timerDelay' = timerDelay
       /\ UNCHANGED <<seenMessageIds, evicted, interrupted>>
  ELSE EnterLoop(k, [IdleCycle EXCEPT
                       !.contactIds = resolveContactIds(config, ApiError, ApiError)],
                 h, o)

\* The setTimeout callback of schedulePoll(), lines 259-267; h and o are the
\* timer handle and the orphan count once the firing timer is no longer pending.
TimerCallback(h, o) ==
  /\ op' = "timer"
  /\ IF ~isRunning
     THEN /\ pollTimer' = h
          /\ orphanTimers' = o
          /\ timerDelay' = timerDelay
          /\ UNCHANGED <<isRunning, cycles, nCycles, seenMessageIds, evicted, interrupted>>
     ELSE IF aborted
     THEN /\ isRunning' = stop.isRunning
          /\ pollTimer' = stop.pollTimer
          /\ orphanTimers' = o
          /\ timerDelay' = timerDelay
          /\ UNCHANGED <<cycles, nCycles, seenMessageIds, evicted, interrupted>>
     ELSE /\ nCycles < MaxCycles
          /\ nCycles' = nCycles + 1
          /\ isRunning' = isRunning
          /\ BeginPoll(nCycles + 1, h, o)
  /\ UNCHANGED <<outsidePoller, config, lastPollTimestamps, robotWxid, aborted, listeners, starts,
                 nStarts, clock, delivered, startedAt>>

\* The timer this.pollTimer refers to fires.
TimerFires ==
  /\ pollTimer = "armed"
  /\ TimerCallback("stale", orphanTimers)

\* A pending timer whose handle was overwritten fires.
OrphanTimerFires ==
  /\ orphanTimers > 0
  /\ TimerCallback(pollTimer, orphanTimers - 1)

\* start(), lines 228-234, with the resolved contact ids: seeding, then
\* schedulePoll().  Sets starts, lastPollTimestamps, startedAt, pollTimer,
\* orphanTimers.
SeedAndSchedule(s, now, contactIds) ==
  /\ starts' = [starts EXCEPT ![s] = [pc |-> "done", now |-> now]]
  /\ lastPollTimestamps' = SeedCursors(lastPollTimestamps, contactIds, now)
  /\ startedAt' = IF startedAt = 0 THEN now ELSE startedAt
  /\ pollTimer' = schedulePoll(isRunning, pollTimer, orphanTimers).pollTimer
  /\ orphanTimers' = schedulePoll(isRunning, pollTimer, orphanTimers).orphanTimers
  /\ timerDelay' = schedulePoll(isRunning, pollTimer, orphanTimers).delay

\* getRobotInfo answers start() s, lines 211-229.
RobotInfoReturns(s) ==
  /\ starts[s].pc = "robotInfo"
  /\ op' = "io"
  /\ \E resp \in RobotInfoResponses, now \in clock..MaxNow :
       /\ robotWxid' = IF resp = "error" THEN robotWxid ELSE resp
       /\ clock' = now
       /\ IF NeedsDirectory(config)
          THEN /\ starts' = [starts EXCEPT ![s] = [pc |-> "resolve", now |-> now]]
               /\ UNCHANGED <<lastPollTimestamps, startedAt, pollTimer, orphanTimers, timerDelay>>
          ELSE SeedAndSchedule(s, now, resolveContactIds(config, ApiError, ApiError))
  /\ UNCHANGED <<outsidePoller, config, isRunning, seenMessageIds, aborted, listeners, nStarts,
                 cycles, nCycles, delivered, evicted, interrupted>>

\* The directory answers the resolveContactIds() of start() s, lines 229-234.
StartResolveReturns(s) ==
  /\ starts[s].pc = "resolve"
  /\ op' = "io"
  /\ \E fr \in FriendResponses, rr \in RoomResponses :
       SeedAndSchedule(s, starts[s].now, resolveContactIds(config, fr, rr))
  /\ UNCHANGED <<outsidePoller, config, isRunning, seenMessageIds, robotWxid, aborted, listeners,
                 nStarts, cycles, nCycles, clock, delivered, evicted, interrupted>>

\* The directory answers the resolveContactIds() of cycle k, lines 340-357.
PollResolveReturns(k) ==
  /\ cycles[k].pc = "resolve"
  /\ op' = "io"
  /\ \E fr \in FriendResponses, rr \in RoomResponses :
       EnterLoop(k, [cycles[k] EXCEPT !.contactIds = resolveContactIds(config, fr, rr)],
                 pollTimer, orphanTimers)
  /\ UNCHANGED <<outsidePoller, config, isRunning, lastPollTimestamps, robotWxid, aborted, listeners,
                 starts, nStarts, nCycles, clock, delivered, startedAt>>

\* getChatHistory answers cycle k, lines 350-409.
ChatHistoryReturns(k) ==
  /\ cycles[k].pc = "fetch"
  /\ op' = "io"
  /\ \E resp \in {ApiError} \cup {ApiOk(p) : p \in Pages(cycles[k].contactIds[cycles[k].idx])} :
       LET c == cycles[k]
           contactId == c.contactIds[c.idx]
           lastPollTimestamp == CursorOf(lastPollTimestamps, contactId)
           f == FilterNew(resp.data, contactId, seenMessageIds, lastPollTimestamp)
       IN IF ~resp.ok
          THEN /\ LoopHead(k, [c EXCEPT !.polled = contactId, !.items = <<>>,
                                        !.lastPollTimestamp = 0, !.seenBefore = {},
                                        !.newMessages = <<>>, !.pos = 0,
                                        !.emitted = <<>>, !.outcome = "failed"],
                           seenMessageIds, pollTimer, orphanTimers)
               /\ UNCHANGED <<lastPollTimestamps, delivered>>
          ELSE DeliverLoop(k, [c EXCEPT !.polled = contactId, !.items = resp.data,
                                        !.lastPollTimestamp = lastPollTimestamp,
                                        !.seenBefore = Range(seenMessageIds),
                                        !.newMessages = NewMessages(f.kept), !.pos = 0,
                                        !.emitted = <<>>, !.outcome = "pending"],
                           f.seen, 1)
  /\ UNCHANGED <<outsidePoller, config, isRunning, robotWxid, aborted, listeners, starts, nStarts,
                 nCycles, clock, startedAt>>

\* The onMessage callback awaited by cycle k has returned (threw = FALSE) or
\* thrown, lines 397-409.
CallbackOutcome(k, threw) ==
  /\ cycles[k].pc = "deliver"
  /\ op' = "io"
  /\ IF threw
     THEN /\ LoopHead(k, [cycles[k] EXCEPT !.outcome = "threw"],
                      seenMessageIds, pollTimer, orphanTimers)
          /\ UNCHANGED <<lastPollTimestamps, delivered>>
     ELSE DeliverLoop(k, cycles[k], seenMessageIds, cycles[k].pos + 1)
  /\ UNCHANGED <<outsidePoller, config, isRunning, robotWxid, aborted, listeners, starts, nStarts,
                 nCycles, clock, startedAt>>

\* The onMessage callback awaited by cycle k returns or throws.
CallbackReturns(k) == \E threw \in BOOLEAN : CallbackOutcome(k, threw)

Next ==
  \/ StartCall
  \/ StopCall
  \/ Abort
  \/ TimerFires
  \/ OrphanTimerFires
  \/ \E s \in StartIds : RobotInfoReturns(s)
  \/ \E s \in StartIds : StartResolveReturns(s)
  \/ \E k \in CycleIds : PollResolveReturns(k)
  \/ \E k \in CycleIds : ChatHistoryReturns(k)
  \/ \E k \in CycleIds : CallbackReturns(k)

Spec == Init /\ [][Next]_vars

\* ============================================== the inbound dispatcher
\* handleWeChatInboundMessage exists in two versions: src/src/inbound.ts
\* applies dmPolicy to every chat; src/unnamed/part_005 selects groupPolicy
\* (default "open") for group chats.  Both are modelled; `version` names the
\* file.
Versions == {"inbound.ts", "part_005"}

\* Replies the host's dispatcher hands to `deliver` during one dispatch.
MaxReplies == 1

\* A WeChat id as a prefix and a body, so that the prefix strip and the
\* lower-casing can be computed.
WxId(prefix, body) == [prefix |-> prefix, body |-> body]

\* String.prototype.toLowerCase over the ids of the model.
ToLowerCase(id) ==
  [prefix |-> IF id.prefix = "WX:" THEN "wx:" ELSE id.prefix,
   body |-> IF id.body = "WXID_A" THEN "wxid_a" ELSE id.body]

\* entry.replace(/^(wechat|wx):/i, "")
StripPrefix(id) ==
  IF id.prefix \in {"wechat:", "wx:", "WX:"} THEN [id EXCEPT !.prefix = ""] ELSE id

\* The senders of the model: one spelled in lower case, the same one in
\* upper case, and another one.
Senders == { WxId("", "wxid_a"), WxId("", "WXID_A"), WxId("", "wxid_x") }

\* The allow-lists of the model.
AllowLists ==
  { <<>>,
    << WxId("WX:", "WXID_A") >>,
    << WxId("group:", "wxid_x"), WxId("wechat:", "wxid_a") >> }

Policies == {"pairing", "allowlist", "open", "disabled"}

\* An optional field is <<>> when unset and <<v>> when set.
Optional(S) == {<<>>} \cup { <<v>> : v \in S }
OrDefault(opt, d) == IF opt = <<>> THEN d ELSE opt[1]

InboundMessages ==
  [chatType : {"direct", "group"}, isAtMe : BOOLEAN, senderWxid : Senders]

\* The per-account configuration fields the gateway reads.
AccountConfigs ==
  [allowFrom : AllowLists, dmPolicy : Optional(Policies),
   requireMention : Optional(BOOLEAN)]

\* startAccount, channel.ts lines 449-458: the deps the gateway's onMessage
\* passes to the handler; it passes no groupPolicy.
GatewayDeps(accountConfig) ==
  [allowFrom |-> accountConfig.allowFrom, dmPolicy |-> accountConfig.dmPolicy,
   groupPolicy |-> <<>>, requireMention |-> accountConfig.requireMention,
   commandAllowFrom |-> <<>>, safetyPrefix |-> <<>>]

\* The deps of a caller other than the gateway, which may set groupPolicy,
\* commandAllowFrom and safetyPrefix.
DirectDeps ==
  [allowFrom : AllowLists, dmPolicy : {<<>>, <<"pairing">>, <<"allowlist">>},
   groupPolicy : {<<"pairing">>, <<"allowlist">>}, requireMention : {<<TRUE>>},
   commandAllowFrom : {<<>>, << <<WxId("wx:", "wxid_x")>> >>},
   safetyPrefix : Optional({"", "[guest] "})]

\* MentionFilterDrops without the filter.
MentionFilterDrops_NoFilter(msg, requireMention) == FALSE

\* The hard mention filter, inbound.ts line 54 and part_005 line 60.
MentionFilterDrops(msg, requireMention) ==
  msg.chatType = "group" /\ requireMention /\ ~msg.isAtMe

\* part_005 line 73; inbound.ts has no policy selection and uses dmPolicy.
effectivePolicy(version, msg, dmPolicy, groupPolicy) ==
  IF version = "part_005" /\ msg.chatType = "group" THEN groupPolicy ELSE dmPolicy

\* inbound.ts lines 60-63, part_005 lines 66-69.
checkId(msg) == ToLowerCase(msg.senderWxid)
normalizedAllowFrom(allowFrom) ==
  { ToLowerCase(StripPrefix(allowFrom[i])) : i \in 1..Len(allowFrom) }

\* inbound.ts lines 67-69, part_005 lines 77-79.
isAllowed(policy, allowFrom, msg) ==
  policy = "open" \/ checkId(msg) \in normalizedAllowFrom(allowFrom)

\* part_005 line 154; the text stands for the notice the source spells out.
defaultSafetyPrefix == "[guest: chat only]"

\* part_005 line 83 and lines 87-90.
isTrusted(allowFrom, msg) == checkId(msg) \in normalizedAllowFrom(allowFrom)
isCommandAuthorized(commandAllowFrom, allowFrom, msg) ==
  checkId(msg) \in normalizedAllowFrom(OrDefault(commandAllowFrom, allowFrom))

\* What the handler hands to formatInboundEnvelope and
\* finalizeInboundContext: the prefix put before msg.body, CommandAuthorized,
\* UserTrustLevel and AllowedCapabilities (part_005 lines 153-157 and
\* 171-200); inbound.ts passes msg.body and `CommandAuthorized: true` and has
\* no trust fields (lines 130-161).
InboundContext(version, msg, deps) ==
  IF version = "inbound.ts"
  THEN [BodyPrefix |-> "", CommandAuthorized |-> TRUE, UserTrustLevel |-> <<>>,
        AllowedCapabilities |-> <<>>]
  ELSE LET trusted == isTrusted(deps.allowFrom, msg)
       IN [BodyPrefix |->
             IF trusted THEN "" ELSE OrDefault(deps.safetyPrefix, defaultSafetyPrefix),
           CommandAuthorized |->
             isCommandAuthorized(deps.commandAllowFrom, deps.allowFrom, msg),
           UserTrustLevel |-> IF trusted THEN <<"trusted">> ELSE <<"guest">>,
           AllowedCapabilities |->
             IF trusted THEN <<{"chat", "tools", "files", "commands"}>>
             ELSE <<{"chat"}>>]

\* handleWeChatInboundMessage up to its first await or its return: the host
\* calls made, in order, where the run stands, and the context handed to the
\* reply pipeline (<<>> when none was built).  pairingReply and ctxPayload
\* tell whether buildPairingReply and finalizeInboundContext answer with a
\* truthy value.
handleWeChatInboundMessage(version, msg, deps, pairingReply, ctxPayload) ==
  LET allowFrom == deps.allowFrom
      dmPolicy == OrDefault(deps.dmPolicy, "pairing")
      groupPolicy == OrDefault(deps.groupPolicy, "open")
      requireMention == OrDefault(deps.requireMention, TRUE)
      policy == effectivePolicy(version, msg, dmPolicy, groupPolicy)
      access == <<"allowFrom.map", "allowFrom.includes">>
  IN IF MentionFilterDrops(msg, requireMention)
     THEN [pc |-> "done", calls |-> <<>>, ctx |-> <<>>]
     ELSE IF ~isAllowed(policy, allowFrom, msg) /\ policy # "pairing"
     THEN [pc |-> "done", calls |-> access, ctx |-> <<>>]
     ELSE IF policy = "pairing" /\ checkId(msg) \notin normalizedAllowFrom(allowFrom)
     THEN IF pairingReply
          THEN [pc |-> "pairingSend",
                calls |-> access \o <<"buildPairingReply", "upsertPairingRequest",
                                      "sendMessageWeChat">>,
                ctx |-> <<>>]
          ELSE [pc |-> "done", calls |-> access \o <<"buildPairingReply">>,
                ctx |-> <<>>]
     ELSE LET context == access \o <<"activity.record", "resolveAgentRoute",
                                     "formatInboundEnvelope", "finalizeInboundContext">>
              ctx == <<InboundContext(version, msg, deps)>>
          IN IF ~ctxPayload
             THEN [pc |-> "done", calls |-> context, ctx |-> ctx]
             ELSE [pc |-> "dispatch",
                   calls |-> context \o <<"createReplyDispatcherWithTyping",
                                          "dispatchReplyFromConfig">>,
                   ctx |-> ctx]

\* A message reaches the handler, through the gateway of an account or from
\* another caller.
InboundInputs ==
  { [version |-> v, viaGateway |-> g, msg |-> m, deps |-> d,
     pc |-> "idle", calls |-> <<>>, replies |-> 0, ctx |-> <<>>] :
      v \in Versions, g \in BOOLEAN, m \in InboundMessages,
      d \in { GatewayDeps(a) : a \in AccountConfigs } \cup DirectDeps }

InitInbound ==
  /\ PollerInit
  /\ NeedsDirectory(config)
  /\ tokenRun = NoTokenRun
  /\ chunkRun = NoChunkRun
  /\ gatewayRun = NoGatewayRun
  /\ requestRun = NoRequestRun
  /\ resolveRun = NoResolveRun
  /\ pageRun = NoPageRun
  /\ inbound \in { i \in InboundInputs :
                     i.viaGateway <=> i.deps.groupPolicy = <<>> }

\* The handler is called and runs to its first await or its return.
HandleInbound ==
  /\ inbound.pc = "idle"
  /\ \E pairingReply \in BOOLEAN, ctxPayload \in BOOLEAN :
       LET r == handleWeChatInboundMessage(inbound.version, inbound.msg, inbound.deps,
                                           pairingReply, ctxPayload)
       IN inbound' = [inbound EXCEPT !.pc = r.pc, !.calls = r.calls, !.ctx = r.ctx]
  /\ UNCHANGED <<pollerVars, outsideInbound>>

\* The send of the pairing reply resolves, or rejects and with it the
\* handler (inbound.ts lines 96-102, part_005 lines 117-123).
PairingSendReturns ==
  /\ inbound.pc = "pairingSend"
  /\ \E threw \in BOOLEAN :
       inbound' = [inbound EXCEPT !.pc = IF threw THEN "rejected" ELSE "done"]
  /\ UNCHANGED <<pollerVars, outsideInbound>>

\* The host's dispatcher calls `deliver` with a payload whose text is blank
\* or not (inbound.ts lines 176-184, part_005 lines 207-214).
Deliver ==
  /\ inbound.pc = "dispatch"
  /\ inbound.replies < MaxReplies
  /\ \E blank \in BOOLEAN :
       inbound' = [inbound EXCEPT
                     !.replies = @ + 1,
                     !.calls = IF blank THEN @ ELSE Append(@, "sendMessageWeChat")]
  /\ UNCHANGED <<pollerVars, outsideInbound>>

\* dispatchReplyFromConfig resolves or rejects; the rejection is caught and
\* the dispatcher is marked idle either way (inbound.ts lines 192-203).
DispatchReturns ==
  /\ inbound.pc = "dispatch"
  /\ inbound' = [inbound EXCEPT !.pc = "done", !.calls = Append(@, "markDispatchIdle")]
  /\ UNCHANGED <<pollerVars, outsideInbound>>

NextInbound ==
  \/ HandleInbound
  \/ PairingSendReturns
  \/ Deliver
  \/ DispatchReturns

SpecInbound == InitInbound /\ [][NextInbound]_vars

\* ================================================== resolveWeChatToken
\* src/unnamed/part_001 lines 174-225.
DEFAULT_ACCOUNT_ID == "default"

\* String.prototype.trim over the strings of the model.
Trim(s) ==
  CASE s = "  " -> ""
    [] s = " account-token " -> "account-token"
    [] s = " account-file-token " -> "account-file-token"
    [] s = " base-token " -> "base-token"
    [] s = " base-file-token " -> "base-file-token"
    [] s = " env-token " -> "env-token"
    [] s = " /account.token " -> "/account.token"
    [] s = " /base.token " -> "/base.token"
    [] OTHER -> s

\* `x?.trim()` of an optional string: "" stands for every falsy outcome.
TrimOptional(opt) == IF opt = <<>> THEN "" ELSE Trim(opt[1])

\* An entry of config.accounts, and the base-level fields of the config.
AccountEntries ==
  [apiToken : Optional({"  ", " account-token "}),
   tokenFile : Optional({"  ", " /account.token "})]

BaseConfigs ==
  [apiToken : Optional({"  ", " base-token "}),
   tokenFile : Optional({"  ", " /base.token "})]

\* config.accounts: empty, or one entry under "default" or under "work".
AccountMaps ==
  { [id \in {} |-> <<>>] } \cup
  { [id \in {k} |-> e] : k \in {DEFAULT_ACCOUNT_ID, "work"}, e \in AccountEntries }

\* The token files: unreadable (<<>>) or their content.
FileSystems ==
  [{"/account.token"} -> Optional({"  ", " account-file-token "})] \cup
  [{"/base.token"} -> Optional({"  ", " base-file-token "})] \cup
  { [p \in {"/account.token", "/base.token"} |->
       IF p = "/account.token" THEN <<" account-file-token ">> ELSE <<" base-file-token ">>] }

\* process.env.WECHAT_API_TOKEN
Environments == Optional({"  ", " env-token "})

\* The accountId argument: null or undefined (<<>>), or an id.
AccountIdArguments == Optional({DEFAULT_ACCOUNT_ID, "work"})

\* resolveWeChatToken, line 178.
resolvedAccountId(accountId) == OrDefault(accountId, DEFAULT_ACCOUNT_ID)

\* isDefaultAccount with every account taken for the default one.
isDefaultAccount_Always(accountId) == TRUE

\* resolveWeChatToken, line 179.
isDefaultAccount(accountId) == resolvedAccountId(accountId) = DEFAULT_ACCOUNT_ID

\* resolveWeChatToken, lines 181-184: the entry is looked up for a
\* non-default account only; <<>> stands for undefined.
accountConfig(accounts, accountId) ==
  IF resolvedAccountId(accountId) # DEFAULT_ACCOUNT_ID
       /\ resolvedAccountId(accountId) \in DOMAIN accounts
  THEN <<accounts[resolvedAccountId(accountId)]>>
  ELSE <<>>

\* readFileSync(tokenFile, "utf8").trim() inside try/catch, lines 192-199 and
\* 209-216: "" when the path is falsy, the file unreadable or blank.
FileToken(tokenFileField, fs) ==
  LET tokenFile == TrimOptional(tokenFileField)
  IN IF tokenFile = "" \/ tokenFile \notin DOMAIN fs THEN ""
     ELSE TrimOptional(fs[tokenFile])

TokenResolution(token, source) == [token |-> token, source |-> source]

resolveWeChatToken(base, accounts, accountId, fs, env) ==
  LET acct == accountConfig(accounts, accountId)
      acctToken == IF acct = <<>> THEN "" ELSE TrimOptional(acct[1].apiToken)
      acctFile == IF acct = <<>> THEN "" ELSE FileToken(acct[1].tokenFile, fs)
      baseToken == TrimOptional(base.apiToken)
      baseFile == FileToken(base.tokenFile, fs)
      envToken == TrimOptional(env)
  IN IF acctToken # "" THEN TokenResolution(acctToken, "config")
     ELSE IF acctFile # "" THEN TokenResolution(acctFile, "configFile")
     ELSE IF isDefaultAccount(accountId) /\ baseToken # ""
     THEN TokenResolution(baseToken, "config")
     ELSE IF isDefaultAccount(accountId) /\ baseFile # ""
     THEN TokenResolution(baseFile, "configFile")
     ELSE IF isDefaultAccount(accountId) /\ envToken # ""
     THEN TokenResolution(envToken, "env")
     ELSE TokenResolution("", "none")

TokenInputs ==
  [pc : {"idle"}, base : BaseConfigs, accounts : AccountMaps,
   accountId : AccountIdArguments, fs : FileSystems, env : Environments,
   result : {TokenResolution("", "none")}]

InitToken ==
  /\ PollerInit
  /\ NeedsDirectory(config)
  /\ inbound = NoInbound
  /\ chunkRun = NoChunkRun
  /\ gatewayRun = NoGatewayRun
  /\ requestRun = NoRequestRun
  /\ resolveRun = NoResolveRun
  /\ pageRun = NoPageRun
  /\ tokenRun \in TokenInputs

\* resolveWeChatToken is called and returns.
ResolveToken ==
  /\ tokenRun.pc = "idle"
  /\ tokenRun' = [tokenRun EXCEPT
                    !.pc = "returned",
                    !.result = resolveWeChatToken(tokenRun.base, tokenRun.accounts,
                                                  tokenRun.accountId, tokenRun.fs,
                                                  tokenRun.env)]
  /\ UNCHANGED <<pollerVars, outsideToken>>

NextToken == ResolveToken

SpecToken == InitToken /\ [][NextToken]_vars

\* ==================================================== outbound.chunker
\* wechatPlugin.outbound.chunker, src/src/channel.ts lines 327-347.  A text
\* is a sequence of characters; indexes are counted from 0 as in the code.
MaxTextLen == 4
MaxLimit == 3

\* The characters of the model: two letters, the two separators the chunker
\* looks for, and a whitespace character it does not look for.
Chars == {"a", "b", " ", "\n", "\t"}

Texts == UNION { [1..n -> Chars] : n \in 0..MaxTextLen }

Limits == (0 - 1)..MaxLimit

\* /\s/.test(ch), and the characters trimEnd and trimStart remove.
IsWhitespace(ch) == ch \in {" ", "\n", "\t"}

\* String.prototype.slice(from, to) and slice(from) for 0 <= from <= to.
Slice(s, from, to) == SubSeq(s, from + 1, IF to < Len(s) THEN to ELSE Len(s))
SliceFrom(s, from) == SubSeq(s, from + 1, Len(s))

\* String.prototype.lastIndexOf(ch): -1 when ch does not occur.
LastIndexOf(s, ch) ==
  LET at == {i \in 1..Len(s) : s[i] = ch}
  IN IF at = {} THEN 0 - 1 ELSE MaxOf(at) - 1

RECURSIVE TrimEnd(_)
TrimEnd(s) ==
  IF s # <<>> /\ IsWhitespace(s[Len(s)]) THEN TrimEnd(SubSeq(s, 1, Len(s) - 1)) ELSE s

RECURSIVE TrimStart(_)
TrimStart(s) ==
  IF s # <<>> /\ IsWhitespace(Head(s)) THEN TrimStart(Tail(s)) ELSE s

\* ForcedBreak one character short of the limit.
ForcedBreak_OneShort(limit) == IF limit > 1 THEN limit - 1 ELSE limit

\* Line 337: `if (breakIdx <= 0) breakIdx = limit;`
ForcedBreak(limit) == limit

\* Lines 333-337: where the window is broken.
BreakIdx(remaining, limit) ==
  LET window == Slice(remaining, 0, limit)
      lastNewline == LastIndexOf(window, "\n")
      lastSpace == LastIndexOf(window, " ")
      breakIdx == IF lastNewline > 0 THEN lastNewline ELSE lastSpace
  IN IF breakIdx <= 0 THEN ForcedBreak(limit) ELSE breakIdx

\* One pass of the while loop, lines 332-344: the chunks and the remaining
\* text it leaves.
chunkerPass(chunks, remaining, limit) ==
  LET breakIdx == BreakIdx(remaining, limit)
      rawChunk == Slice(remaining, 0, breakIdx)
      chunk == TrimEnd(rawChunk)
      brokeOnSeparator ==
        breakIdx < Len(remaining) /\ IsWhitespace(remaining[breakIdx + 1])
      reach == breakIdx + (IF brokeOnSeparator THEN 1 ELSE 0)
      nextStart == IF Len(remaining) < reach THEN Len(remaining) ELSE reach
  IN [chunks |-> IF Len(chunk) > 0 THEN Append(chunks, chunk) ELSE chunks,
      remaining |-> TrimStart(SliceFrom(remaining, nextStart))]

ChunkInputs ==
  [pc : {"idle"}, text : Texts, limit : Limits, remaining : {<<>>},
   chunks : {<<>>}]

InitChunker ==
  /\ PollerInit
  /\ NeedsDirectory(config)
  /\ inbound = NoInbound
  /\ tokenRun = NoTokenRun
  /\ gatewayRun = NoGatewayRun
  /\ requestRun = NoRequestRun
  /\ resolveRun = NoResolveRun
  /\ pageRun = NoPageRun
  /\ chunkRun \in ChunkInputs

\* The chunker is called, lines 328-331: the two early returns, or the
\* locals of the loop.
ChunkerCall ==
  /\ chunkRun.pc = "idle"
  /\ chunkRun' =
       IF chunkRun.text = <<>>
       THEN [chunkRun EXCEPT !.pc = "returned", !.chunks = <<>>]
       ELSE IF chunkRun.limit <= 0 \/ Len(chunkRun.text) <= chunkRun.limit
       THEN [chunkRun EXCEPT !.pc = "returned", !.chunks = <<chunkRun.text>>]
       ELSE [chunkRun EXCEPT !.pc = "loop", !.remaining = chunkRun.text]
  /\ UNCHANGED <<pollerVars, outsideChunker>>

\* One pass of the while loop, lines 332-344.
ChunkerPass ==
  /\ chunkRun.pc = "loop"
  /\ Len(chunkRun.remaining) > chunkRun.limit
  /\ LET r == chunkerPass(chunkRun.chunks, chunkRun.remaining, chunkRun.limit)
     IN chunkRun' = [chunkRun EXCEPT !.chunks = r.chunks, !.remaining = r.remaining]
  /\ UNCHANGED <<pollerVars, outsideChunker>>

\* The loop condition fails, lines 345-346: the rest is pushed and the chunks
\* are returned.
ChunkerReturn ==
  /\ chunkRun.pc = "loop"
  /\ Len(chunkRun.remaining) <= chunkRun.limit
  /\ chunkRun' = [chunkRun EXCEPT
                    !.pc = "returned",
                    !.chunks = IF Len(chunkRun.remaining) > 0
                               THEN Append(@, chunkRun.remaining) ELSE @]
  /\ UNCHANGED <<pollerVars, outsideChunker>>

NextChunker == ChunkerCall \/ ChunkerPass \/ ChunkerReturn

\* The chunker is synchronous code: a call that has begun keeps running.
SpecChunker == InitChunker /\ [][NextChunker]_vars /\ WF_vars(NextChunker)

\* ====================================== gateway.startAccount / stopAccount
\* wechatPlugin.gateway, src/src/channel.ts lines 417-506.  The hooks are
\* run for one account: startAccount creates the poller and awaits its
\* start(); stopAccount is the host's stop hook.  The abort signal belongs to
\* the host, which may fire it at any time or never.
GatewayInputs ==
  [pc : {"idle"}, apiToken : BOOLEAN, running : {FALSE}, stopCalled : {FALSE}]

InitGateway ==
  /\ PollerInit
  /\ inbound = NoInbound
  /\ tokenRun = NoTokenRun
  /\ chunkRun = NoChunkRun
  /\ requestRun = NoRequestRun
  /\ resolveRun = NoResolveRun
  /\ pageRun = NoPageRun
  /\ gatewayRun \in GatewayInputs

\* Line 426: `!pollingConfig?.pollContactIds?.length && !pollingConfig?.pollAllContacts`
PollingConfigured(cfg) == Len(cfg.pollContactIds) > 0 \/ cfg.pollAllContacts

\* startAccount up to createWeChatPoller, lines 418-481: it returns null
\* without a polling configuration and throws without a token.
StartAccount ==
  /\ gatewayRun.pc = "idle"
  /\ gatewayRun' =
       [gatewayRun EXCEPT
          !.pc = IF ~PollingConfigured(config) THEN "skipped"
                 ELSE IF ~gatewayRun.apiToken THEN "threw"
                 ELSE "created"]
  /\ UNCHANGED <<pollerVars, outsideGateway>>

\* Line 483: poller.start() is called, once.
PollerStart ==
  /\ gatewayRun.pc = "created"
  /\ nStarts = 0
  /\ op # "start"
  /\ StartCall

\* `await poller.start()` is over: start() returned at once, or after seeding.
PollerStartReturned ==
  \/ nStarts = 0 /\ op = "start"
  \/ nStarts = 1 /\ starts[1].pc = "done"

\* startAccount after `await poller.start()`, lines 485-494.
StartAccountReturns ==
  /\ gatewayRun.pc = "created"
  /\ PollerStartReturned
  /\ gatewayRun' = [gatewayRun EXCEPT !.pc = "running", !.running = TRUE]
  /\ UNCHANGED <<pollerVars, outsideGateway>>

\* stopAccount, lines 496-505: it updates the status and nothing else.
StopAccount ==
  /\ gatewayRun.pc = "running"
  /\ ~gatewayRun.stopCalled
  /\ gatewayRun' = [gatewayRun EXCEPT !.running = FALSE, !.stopCalled = TRUE]
  /\ UNCHANGED <<pollerVars, outsideGateway>>

\* The onMessage the gateway hands to the poller catches every error of the
\* handler (lines 446-471), so the callback the poller awaits never rejects.
GatewayCallbackReturns(k) == CallbackOutcome(k, FALSE)

\* Nothing behind the gateway calls the poller's stop() other than the abort
\* listener, and start() is called once.
NextGateway ==
  \/ StartAccount
  \/ PollerStart
  \/ StartAccountReturns
  \/ StopAccount
  \/ Abort
  \/ TimerFires
  \/ RobotInfoReturns(1)
  \/ StartResolveReturns(1)
  \/ \E k \in CycleIds : PollResolveReturns(k)
  \/ \E k \in CycleIds : ChatHistoryReturns(k)
  \/ \E k \in CycleIds : GatewayCallbackReturns(k)

SpecGateway == InitGateway /\ [][NextGateway]_vars

\* ======================================= sendMessageWeChat and probeWeChat
\* sendMessageWeChat (src/unnamed/part_001 lines 71-145), probeWeChat
\* (src/unnamed/part_000 lines 22-79) and the HTTP helper they reach
\* (src/src/api.ts lines 47-86, 149-192).  One call is modelled with the
\* backend answering each request; a missing argument is the empty string.
DEFAULT_BASE_URL == "http://localhost:9000"

\* new URL(endpoint, baseUrl) throws a TypeError unless the base parses.
ValidBase(baseUrl) == baseUrl = DEFAULT_BASE_URL

\* What a request ends with: the envelope code is 200, the envelope code is
\* something else, the timeout aborts the fetch, the transport fails, or the
\* body is not JSON.
Outcomes == {"ok", "envelope", "timeout", "transport", "badJson"}

\* The error callApi or fetch throws for an outcome.
ErrorOf(outcome) ==
  CASE outcome = "envelope" -> "WeChatApiError"
    [] outcome = "timeout" -> "AbortError"
    [] outcome = "transport" -> "TypeError"
    [] outcome = "badJson" -> "SyntaxError"

\* data.status of the robot state, or no data in the envelope.
RobotStates == {"online", "offline", "error", "nodata"}

SendInputs ==
  [fn : {"send"}, pc : {"idle"}, apiToken : {"", "  ", "token"},
   baseUrl : Optional({"", DEFAULT_BASE_URL}),
   toWxid : {"", "  ", "wxid_a"}, text : {"", "  ", "hello"},
   voiceFilePath : Optional({"/voice.mp3"}), mediaUrl : Optional({"http://image"}),
   requests : {<<>>}, raised : {FALSE}, result : {<<>>}]

ProbeInputs ==
  [fn : {"probe"}, pc : {"idle"}, apiToken : {"", "  ", "token"},
   baseUrl : Optional({"", "  ", DEFAULT_BASE_URL}),
   toWxid : {""}, text : {""}, voiceFilePath : {<<>>}, mediaUrl : {<<>>},
   requests : {<<>>}, raised : {FALSE}, result : {<<>>}]

InitRequest ==
  /\ PollerInit
  /\ NeedsDirectory(config)
  /\ inbound = NoInbound
  /\ tokenRun = NoTokenRun
  /\ chunkRun = NoChunkRun
  /\ gatewayRun = NoGatewayRun
  /\ resolveRun = NoResolveRun
  /\ pageRun = NoPageRun
  /\ requestRun \in SendInputs \cup ProbeInputs

\* `{ ok: false, error }` and `{ ok: true, ... }`.
Failed(error) == [ok |-> FALSE, error |-> <<error>>]
Succeeded == [ok |-> TRUE, error |-> <<>>]

\* The call returns `result`.
Returns(r, result) == [r EXCEPT !.pc = "returned", !.result = <<result>>]

\* OnCatch with the catch block reporting success.
OnCatch_ReportsOk(r, err) == Returns(r, Succeeded)

\* The catch blocks of sendMessageWeChat (lines 104-106, 123-125, 140-142)
\* and of probeWeChat (lines 62-78): every thrown value becomes a result.
OnCatch(r, err) ==
  Returns(r, Failed(IF r.fn = "probe" /\ err = "AbortError"
                    THEN "Request timed out" ELSE err))

\* resolveSendContext without a cfg (part_001 lines 56-60), and the
\* arguments of probeWeChat.
BaseUrlOf(r) ==
  IF r.fn = "send" THEN OrDefault(r.baseUrl, DEFAULT_BASE_URL)
  ELSE OrDefault(r.baseUrl, "")

\* A value is thrown inside or outside a try block of the function: it is
\* caught, or it leaves the function as a rejection.
Throw(r, err, insideTry) ==
  IF insideTry THEN OnCatch(r, err) ELSE [r EXCEPT !.pc = "raised", !.raised = TRUE]

\* callApi / sendVoiceMessage up to the fetch: the URL is built (api.ts lines
\* 54, 154), then the request leaves.  Every call is inside a try block of
\* the caller (part_001 lines 87, 110, 133; part_000 line 38).
Request(r, endpoint, awaiting) ==
  IF ValidBase(BaseUrlOf(r))
  THEN [r EXCEPT !.pc = awaiting,
                 !.requests = Append(@, [endpoint |-> endpoint, outcome |-> "pending"])]
  ELSE Throw(r, "TypeError", TRUE)

\* The text request sent after a voice or an image, lines 97-102 and 116-121,
\* or the return when there is no text.
TextAfterMedia(r) ==
  IF Trim(r.text) # "" THEN Request(r, "send/text", "textAfterMedia")
  ELSE Returns(r, Succeeded)

\* sendMessageWeChat up to its first await, lines 71-135.
sendMessageWeChat(r) ==
  IF r.apiToken = "" THEN Returns(r, Failed("No WeChat API token configured"))
  ELSE IF Trim(r.toWxid) = "" THEN Returns(r, Failed("No to_wxid provided"))
  ELSE IF r.voiceFilePath # <<>> THEN [r EXCEPT !.pc = "readFile"]
  ELSE IF r.mediaUrl # <<>> THEN Request(r, "send/image", "image")
  ELSE IF Trim(r.text) = "" THEN Returns(r, Failed("No message content provided"))
  ELSE Request(r, "send/text", "text")

\* probeWeChat up to its await, lines 22-44.
probeWeChat(r) ==
  IF Trim(r.apiToken) = "" THEN Returns(r, Failed("No API token provided"))
  ELSE IF Trim(OrDefault(r.baseUrl, "")) = "" THEN Returns(r, Failed("No base URL provided"))
  ELSE Request(r, "robot/state", "probe")

\* probeWeChat after the await, lines 45-61.
ProbeResult(state) ==
  IF state = "nodata" THEN Failed("Invalid response from WeChat backend")
  ELSE IF state = "online" THEN Succeeded
  ELSE IF state = "offline" THEN Failed("Robot is offline")
  ELSE Failed("Robot status unknown")

\* The host calls sendMessageWeChat or probeWeChat.
RequestCall ==
  /\ requestRun.pc = "idle"
  /\ requestRun' = IF requestRun.fn = "send" THEN sendMessageWeChat(requestRun)
                   ELSE probeWeChat(requestRun)
  /\ UNCHANGED <<pollerVars, outsideRequest>>

\* fs.promises.readFile resolves or rejects, lines 89-95.
ReadFileReturns ==
  /\ requestRun.pc = "readFile"
  /\ \E readable \in BOOLEAN :
       requestRun' = IF readable THEN Request(requestRun, "send/voice", "voice")
                     ELSE Throw(requestRun, "ENOENT", TRUE)
  /\ UNCHANGED <<pollerVars, outsideRequest>>

\* The backend answers the pending request, or the request fails.
BackendAnswers ==
  /\ requestRun.pc \in {"voice", "image", "text", "textAfterMedia", "probe"}
  /\ \E outcome \in Outcomes, state \in RobotStates :
       LET n == Len(requestRun.requests)
           r == [requestRun EXCEPT !.requests[n].outcome = outcome]
       IN requestRun' =
            IF outcome # "ok" THEN Throw(r, ErrorOf(outcome), TRUE)
            ELSE IF r.pc \in {"voice", "image"} THEN TextAfterMedia(r)
            ELSE IF r.pc = "probe" THEN Returns(r, ProbeResult(state))
            ELSE Returns(r, Succeeded)
  /\ UNCHANGED <<pollerVars, outsideRequest>>

NextRequest == RequestCall \/ ReadFileReturns \/ BackendAnswers

SpecRequest == InitRequest /\ [][NextRequest]_vars

\* ========================================== resolveContactIds, per cycle
\* WeChatMessagePoller.resolveContactIds (src/unnamed/part_004 lines 280-333)
\* with its two awaits as separate steps, called by successive poll cycles
\* (lines 339-350) of a running poller.
MaxResolveCycles == 2
MaxCap == 2

ResolveConfigs ==
  [pollContactIds : {<<>>, <<"c2", "c1">>}, pollAllContacts : BOOLEAN,
   maxPollContacts : Optional(0..MaxCap), pollingIntervalMs : {<<>>}]

\* Answers of getContactList("friend") and getChatRoomList: a thrown error or
\* the wechat_ids in backend order (`data ?? []` when data is absent).
FriendAnswers ==
  { ApiError, ApiOk(<<>>), ApiOk(<<"f1">>), ApiOk(<<"f2", "f1">>),
    ApiOk(<<"f1", "f2", "f3">>) }
RoomAnswers == { ApiError, ApiOk(<<>>), ApiOk(<<"r1">>), ApiOk(<<"r2", "r1">>) }

Unasked == [ok |-> FALSE, data |-> <<>>]

ResolveInputs ==
  [pc : {"idle"}, cfg : ResolveConfigs, cycle : {0}, contactIds : {<<>>},
   requests : {<<>>}, friendsResponse : {Unasked}, roomsResponse : {Unasked},
   history : {<<>>}, previous : {<<>>}]

InitResolve ==
  /\ PollerInit
  /\ NeedsDirectory(config)
  /\ inbound = NoInbound
  /\ tokenRun = NoTokenRun
  /\ chunkRun = NoChunkRun
  /\ gatewayRun = NoGatewayRun
  /\ requestRun = NoRequestRun
  /\ pageRun = NoPageRun
  /\ resolveRun \in ResolveInputs

\* Line 293: `config.maxPollContacts ?? DEFAULT_MAX_POLL_CONTACTS`
MaxContacts(cfg) == OrDefault(cfg.maxPollContacts, DEFAULT_MAX_POLL_CONTACTS)

\* Collect without the cap.
Collect_NoCap(contactIds, data, maxContacts) == contactIds \o data

\* Lines 306-309 and 319-322: the for loop that pushes ids until the cap.
RECURSIVE Collect(_, _, _)
Collect(contactIds, data, maxContacts) ==
  IF data = <<>> \/ Len(contactIds) >= maxContacts THEN contactIds
  ELSE Collect(Append(contactIds, Head(data)), Tail(data), maxContacts)

\* A timer callback calls poll(), which calls resolveContactIds(): lines
\* 339-340 and 280-305, up to the first await or the return.
ResolveCall ==
  /\ resolveRun.pc = "idle"
  /\ resolveRun.cycle < MaxResolveCycles
  /\ LET r == [resolveRun EXCEPT
                 !.cycle = @ + 1, !.previous = resolveRun.contactIds,
                 !.requests = <<>>, !.friendsResponse = Unasked,
                 !.roomsResponse = Unasked, !.history = <<>>]
     IN resolveRun' =
          IF Len(r.cfg.pollContactIds) > 0
          THEN [r EXCEPT !.pc = "resolved", !.contactIds = r.cfg.pollContactIds]
          ELSE IF r.cfg.pollAllContacts
          THEN [r EXCEPT !.pc = "friends", !.contactIds = <<>>,
                         !.requests = <<"friend">>]
          ELSE [r EXCEPT !.pc = "resolved", !.contactIds = <<>>]
  /\ UNCHANGED <<pollerVars, outsideResolve>>

\* getContactList("friend") answers, lines 306-317: the friends are
\* collected and the rooms requested when capacity remains; an error is
\* caught (lines 325-328) and what was collected is returned.
FriendsAnswer ==
  /\ resolveRun.pc = "friends"
  /\ \E fr \in FriendAnswers :
       LET r == [resolveRun EXCEPT !.friendsResponse = fr]
           contactIds == Collect(r.contactIds, fr.data, MaxContacts(r.cfg))
       IN resolveRun' =
            IF ~fr.ok THEN [r EXCEPT !.pc = "resolved"]
            ELSE IF Len(contactIds) < MaxContacts(r.cfg)
            THEN [r EXCEPT !.pc = "rooms", !.contactIds = contactIds,
                           !.requests = Append(@, "chat_room")]
            ELSE [r EXCEPT !.pc = "resolved", !.contactIds = contactIds]
  /\ UNCHANGED <<pollerVars, outsideResolve>>

\* getChatRoomList answers, lines 319-330.
RoomsAnswer ==
  /\ resolveRun.pc = "rooms"
  /\ \E rr \in RoomAnswers :
       resolveRun' =
         [resolveRun EXCEPT
            !.pc = "resolved", !.roomsResponse = rr,
            !.contactIds = IF rr.ok THEN Collect(@, rr.data, MaxContacts(resolveRun.cfg))
                           ELSE @]
  /\ UNCHANGED <<pollerVars, outsideResolve>>

\* poll() with the resolved ids, lines 341-355: it returns when there is
\* none, and otherwise requests the history of the first contact.
EnterContactLoop ==
  /\ resolveRun.pc = "resolved"
  /\ resolveRun' =
       [resolveRun EXCEPT
          !.pc = "idle",
          !.history = IF Len(resolveRun.contactIds) = 0 THEN <<>>
                      ELSE <<resolveRun.contactIds[1]>>]
  /\ UNCHANGED <<pollerVars, outsideResolve>>

NextResolve == ResolveCall \/ FriendsAnswer \/ RoomsAnswer \/ EnterContactLoop

SpecResolve == InitResolve /\ [][NextResolve]_vars

\* ============================== the filters of poll(), one contact's pages
\* The per-contact body of poll() (src/unnamed/part_004 lines 349-420) run
\* for one contact over successive cycles, with history items of every kind
\* the delivery loop tells apart.  The steps use the operators of the poller
\* above.
MaxPageCycles == 3

\* Two plain text messages and one item for each check of the delivery loop;
\* msg_id and created_at coincide.
FilterItems ==
  { HistoryItem(1, 1, "user", "wxid_a", FALSE, 1),
    HistoryItem(2, 2, "user", "wxid_b", FALSE, 1),
    HistoryItem(3, 3, "robot", "wxid_a", FALSE, 1),
    HistoryItem(4, 4, "user", RobotWxidValue, FALSE, 1),
    HistoryItem(5, 5, "user", "wxid_a", TRUE, 1),
    HistoryItem(6, 6, "user", "wxid_a", FALSE, 3) }

FilterPages ==
  { p \in UNION { [1..n -> FilterItems] : n \in 0..MaxPageLen } :
      /\ \A i, j \in 1..Len(p) : i # j => p[i] # p[j]
      /\ IsNewestFirst(p) }

PageInputs ==
  [pc : {"idle"}, robotWxid : {Null, RobotWxidValue}, cycle : {0},
   lastPollTimestamps : {[c \in {"c1"} |-> 0]}, seenMessageIds : {<<>>},
   items : {<<>>}, newMessages : {<<>>}, pos : {0},
   delivered : {[it \in FilterItems |-> 0]},
   skipped : {[it \in FilterItems |-> 0]}]

InitPage ==
  /\ PollerInit
  /\ NeedsDirectory(config)
  /\ inbound = NoInbound
  /\ tokenRun = NoTokenRun
  /\ chunkRun = NoChunkRun
  /\ gatewayRun = NoGatewayRun
  /\ requestRun = NoRequestRun
  /\ resolveRun = NoResolveRun
  /\ pageRun \in PageInputs

\* The contact loop has no further contact: the end-of-cycle trim, lines
\* 413-419.
PageCycleEnds(r) ==
  [r EXCEPT !.pc = "idle", !.seenMessageIds = TrimSeen(@)]

\* The delivery loop from index `from` up to the next awaited callback, or
\* past the batch to the cursor update, lines 376-405.
PageDeliverLoop(r, from) ==
  LET j == NextDeliverable(r.newMessages, from, r.robotWxid)
      last == IF j > 0 THEN j - 1 ELSE Len(r.newMessages)
      \* how often the loop has passed over each item with `continue`
      skipped == [it \in FilterItems |->
                    IF \E i \in from..last : r.newMessages[i] = it
                    THEN r.skipped[it] + 1 ELSE r.skipped[it]]
  IN IF j > 0
     THEN [r EXCEPT !.pc = "deliver", !.pos = j, !.skipped = skipped,
                    !.delivered[r.newMessages[j]] = @ + 1]
     ELSE PageCycleEnds(
            [r EXCEPT !.pos = Len(r.newMessages), !.skipped = skipped,
                      !.lastPollTimestamps = AdvanceCursor(@, "c1", r.items)])

\* getChatHistory answers a cycle with a page, lines 350-398, or throws.
PageAnswers ==
  /\ pageRun.pc = "idle"
  /\ pageRun.cycle < MaxPageCycles
  /\ \E resp \in {ApiError} \cup {ApiOk(p) : p \in FilterPages} :
       LET r == [pageRun EXCEPT !.cycle = @ + 1, !.items = resp.data,
                                !.newMessages = <<>>, !.pos = 0]
           f == FilterNew(resp.data, "c1", r.seenMessageIds,
                          CursorOf(r.lastPollTimestamps, "c1"))
       IN pageRun' =
            IF ~resp.ok THEN PageCycleEnds(r)
            ELSE PageDeliverLoop([r EXCEPT !.seenMessageIds = f.seen,
                                           !.newMessages = NewMessages(f.kept)], 1)
  /\ UNCHANGED <<pollerVars, outsidePage>>

\* The awaited callback returns or throws, lines 397-409.
PageCallbackReturns ==
  /\ pageRun.pc = "deliver"
  /\ \E threw \in BOOLEAN :
       pageRun' = IF threw THEN PageCycleEnds(pageRun)
                  ELSE PageDeliverLoop(pageRun, pageRun.pos + 1)
  /\ UNCHANGED <<pollerVars, outsidePage>>

NextPage == PageAnswers \/ PageCallbackReturns

SpecPage == InitPage /\ [][NextPage]_vars

\* ================================================================== claims
ActiveCycles == {k \in CycleIds : cycles[k].pc \notin {"idle", "done"}}

\* A timer created by schedulePoll() that has neither fired nor been cleared.
TimerPending == pollTimer = "armed" \/ orphanTimers > 0

\* The cycle records that hold the locals of a contact's processing: the page,
\* the cursor and the seen-set the filter ran against, what was emitted.
Processed == {k \in CycleIds : cycles[k].outcome \in {"pending", "ok", "threw"}}

KeyOf(c, item) == MessageKey(c.polled, item.msg_id)

\* Text, not recalled, not robot-originated (by source or by sender).
IsPlainText(item) ==
  /\ item.type = 1
  /\ ~item.is_recalled
  /\ item.message_source # "robot"
  /\ item.sender_wxid # RobotWxidValue

\* Page positions of the items that were unseen when the page arrived, lie
\* strictly after the cursor read for the page and are plain text.
Candidates(c) ==
  {i \in 1..Len(c.items) :
     /\ KeyOf(c, c.items[i]) \notin c.seenBefore
     /\ c.items[i].created_at > c.lastPollTimestamp
     /\ IsPlainText(c.items[i])}

\* Page positions of the items handed to onMessage.
EmittedPositions(c) ==
  {i \in 1..Len(c.items) : \E j \in 1..Len(c.emitted) : c.emitted[j] = c.items[i]}

\* ---------------------------------------------------------------------- C1
\* C1 (original): over the lifetime of the poller, onMessage is invoked at
\* most once per identity key contactId:msgId.
C1_AtMostOncePerKey == \A key \in Keys : delivered[key] <= 1

\* C1 (amended): onMessage is invoked at most once per stay of a key in the
\* seen-set: a key is delivered again only after the trim evicted it, so the
\* deliveries of a key never outnumber its insertions into the seen-set.
C1_AtMostOncePerInsertion ==
  \A key \in Keys :
    delivered[key] <= evicted[key] + (IF key \in Range(seenMessageIds) THEN 1 ELSE 0)

\* A delivered, never evicted key came back in a later page and was
\* suppressed by the seen-set.
C1_Witness ==
  \E k \in Processed :
    \E i \in 1..Len(cycles[k].items) :
      LET key == KeyOf(cycles[k], cycles[k].items[i])
      IN /\ key \in cycles[k].seenBefore
         /\ delivered[key] = 1
         /\ evicted[key] = 0
         /\ cycles[k].items[i].created_at > cycles[k].lastPollTimestamp

\* ---------------------------------------------------------------------- C2
\* C2: for every contact, the stored cursor never decreases in any step, the
\* value seeded by start() included.
C2_CursorNeverDecreases ==
  [][\A c \in DOMAIN lastPollTimestamps :
       lastPollTimestamps'[c] >= lastPollTimestamps[c]]_vars

\* ---------------------------------------------------------------------- C3
\* C3: a poll cycle never begins while a previous cycle of the instance has
\* not fully finished: at most one cycle is in flight.
C3_NoOverlappingCycles == Cardinality(ActiveCycles) <= 1

\* ---------------------------------------------------------------------- C4
\* C4: no history item whose created_at is at or before the poller's start
\* time is ever delivered to the callback.
C4_NoHistoryBeforeStart ==
  \A key \in Keys : delivered[key] > 0 => CreatedAtOf(key) > startedAt

\* ---------------------------------------------------------------------- C5
\* The key is in the batch of an in-flight cycle, at or after the item whose
\* callback is awaited.
PendingDelivery(key) ==
  \E k \in CycleIds :
    /\ cycles[k].pc = "deliver"
    /\ \E j \in cycles[k].pos..Len(cycles[k].newMessages) :
         KeyOf(cycles[k], cycles[k].newMessages[j]) = key

C6_AbortStopsEverything ==
  /\ [](aborted => (~isRunning /\ ~TimerPending))
  /\ [][aborted => nCycles' = nCycles]_vars

\* ---------------------------------------------------------------------- C7
\* The state start() may touch: everything but the label of the last step.
pollerState ==
  <<config, isRunning, pollTimer, orphanTimers, timerDelay, lastPollTimestamps,
    seenMessageIds, robotWxid, aborted, listeners, starts, nStarts, cycles,
    nCycles, clock, delivered, evicted, startedAt>>

\* C7: start() on a running poller returns at once: it creates no timer and
\* no second start() invocation (so no identity fetch and no seeding),
\* registers no abort listener and changes no other state.
C7_StartIdempotentWhileRunning ==
  [][(op' = "start" /\ isRunning) => UNCHANGED pollerState]_vars

\* start() was the last step and found the poller running with its timer
\* armed (a start() that passes the first check leaves the handle null).
C7_Witness == op = "start" /\ isRunning /\ pollTimer = "armed" /\ nStarts = 1

\* ---------------------------------------------------------------------- C8
\* C8: stop() leaves the running flag false and no poll timer pending,
\* whether or not the poller was running; a repeated stop() changes no
\* state; stop() leaves cursors and seen-set untouched.
C8_StopClearsEverything ==
  /\ [](op = "stop" => (~isRunning /\ ~TimerPending))
  /\ [][op' = "stop" =>
          /\ UNCHANGED <<lastPollTimestamps, seenMessageIds>>
          /\ (op = "stop" => UNCHANGED pollerState)]_vars

\* ---------------------------------------------------------------------- C9
\* C9: start() with the signal already aborted returns with the poller not
\* running, having begun no start() invocation (no backend request), armed no
\* timer and seeded no cursor; a poller whose signal was aborted before its
\* first start() never begins a cycle and never invokes the callback.
C9_StartWhenAborted ==
  /\ [][(op' = "start" /\ aborted) =>
          /\ isRunning' = FALSE
          /\ pollTimer' # "armed"
          /\ UNCHANGED <<orphanTimers, timerDelay, starts, nStarts, cycles, nCycles,
                         lastPollTimestamps, robotWxid, delivered>>]_vars
  /\ []((aborted /\ nStarts = 0) =>
          /\ ~isRunning
          /\ ~TimerPending
          /\ nCycles = 0
          /\ DOMAIN lastPollTimestamps = {}
          /\ \A key \in Keys : delivered[key] = 0)

\* start() was called on a poller whose signal was aborted before any
\* start() got past the early returns.
C9_Witness == op = "start" /\ aborted /\ nStarts = 0

\* --------------------------------------------------------------------- C10
\* The items of the page that precede position i are newer than item i.
\* C10 (original): for one contact in one cycle the callback receives exactly
\* the unseen plain-text items newer than the cursor, oldest first: once the
\* contact's processing has ended every such item has been emitted, and only
\* such items, in oldest-first order.
C10_ExactlyTheNewItems ==
  \A k \in Processed :
    LET c == cycles[k]
    IN c.outcome \in {"ok", "threw"} =>
         /\ EmittedPositions(c) = Candidates(c)
         /\ Len(c.emitted) = Cardinality(Candidates(c))
         /\ \A a, b \in 1..Len(c.emitted) :
              a < b => c.emitted[a].created_at <= c.emitted[b].created_at

\* C10 (amended): for one contact in one cycle the callback receives, oldest
\* first and each once, the unseen plain-text items newer than the cursor up
\* to and including the first one for which it throws, and no other item of
\* the page: all of them when no invocation throws.
C10_NewItemsOldestFirst ==
  \A k \in Processed :
    LET c == cycles[k]
        pagePos(item) == CHOOSE i \in 1..Len(c.items) : c.items[i] = item
    IN /\ \A a \in 1..Len(c.emitted) : \E i \in Candidates(c) : c.items[i] = c.emitted[a]
       /\ \A a, b \in 1..Len(c.emitted) :
            a < b => /\ c.emitted[a].created_at <= c.emitted[b].created_at
                     /\ pagePos(c.emitted[a]) > pagePos(c.emitted[b])
       /\ \A i \in Candidates(c), j \in EmittedPositions(c) :
            i > j => i \in EmittedPositions(c)
       /\ c.outcome = "ok" => EmittedPositions(c) = Candidates(c)

\* The scaled example: page [3, 2] newest first against cursor 1 has
\* delivered the item created at 2 and then the one created at 3.
C10_Witness ==
  \E k \in Processed :
    /\ cycles[k].outcome = "ok"
    /\ Len(cycles[k].items) = 2
    /\ cycles[k].items[1].created_at = 3
    /\ cycles[k].items[2].created_at = 2
    /\ cycles[k].lastPollTimestamp = 1
    /\ cycles[k].emitted = <<cycles[k].items[2], cycles[k].items[1]>>

\* --------------------------------------------------------------------- C11
\* The timer callback of cycle k returns from poll() in this step.
CycleEnds(k) == cycles[k].pc # "done" /\ cycles'[k].pc = "done"

\* The keys one step can append to the seen-set: those of one page.
AddedKeys == UNION { [1..n -> Keys] : n \in 0..MaxPageLen }

\* C11: at the end of a cycle in which the seen-set (with the keys the last
\* page added) holds more than the high-water mark, exactly the
\* earliest-inserted SeenEvictCount keys are removed and every other key is
\* kept, in order; when it holds no more than the mark nothing is removed.
C11_TrimAtCycleEnd ==
  [][\A k \in CycleIds :
       CycleEnds(k) =>
         \E added \in AddedKeys :
           LET pre == seenMessageIds \o added
           IN IF Len(pre) > SeenHighWater
              THEN /\ seenMessageIds' = SubSeq(pre, SeenEvictCount + 1, Len(pre))
                   /\ \A key \in Keys :
                        evicted'[key] = evicted[key] +
                          (IF \E i \in 1..SeenEvictCount : pre[i] = key THEN 1 ELSE 0)
              ELSE /\ seenMessageIds' = pre
                   /\ evicted' = evicted]_vars

\* --------------------------------------------------------------------- C12
\* C12: in a running, unaborted poller an error while fetching or processing
\* a contact (a failed history fetch, a throwing callback) does not end the
\* cycle and does not stop the poller: the cycle goes on to fetch the next
\* contact of the same resolved list, and it ends only after the last one.
C12_ErrorDoesNotEndCycle ==
  [][\A k \in CycleIds :
       (/\ cycles[k].pc \in {"fetch", "deliver"}
        /\ cycles'[k] # cycles[k]
        /\ isRunning /\ ~aborted)
       => /\ isRunning'
          /\ cycles'[k].pc = "done" => cycles[k].idx = Len(cycles[k].contactIds)
          /\ cycles'[k].outcome \in {"failed", "threw"} =>
               /\ cycles'[k].pc = "fetch"
               /\ cycles'[k].idx = cycles[k].idx + 1
               /\ cycles'[k].contactIds = cycles[k].contactIds]_vars

\* The history of the second contact is being fetched after the callback
\* threw for a message of the first.
C12_Witness ==
  \E k \in CycleIds :
    /\ cycles[k].pc = "fetch"
    /\ cycles[k].idx = 2
    /\ cycles[k].polled = "c1"
    /\ cycles[k].outcome = "threw"

\* --------------------------------------------------------------------- C13
\* The interval the poller was configured with, 3000 ms when none was.
ConfiguredInterval ==
  IF config.pollingIntervalMs = <<>> THEN 3000 ELSE config.pollingIntervalMs[1]

\* A start() invocation is awaiting the backend.
StartInFlight == \E s \in StartIds : starts[s].pc \in {"robotInfo", "resolve"}

\* C13: in a running, unaborted poller the end of every poll cycle, whatever
\* failed or threw in it, and the end of start(), whether or not the identity
\* fetch failed, arm a timer for the next cycle with the configured interval
\* as its delay (no backoff); and the loop never ends silently: a timer is
\* pending, a cycle is under way or start() is still in flight.
C13_AlwaysRescheduled ==
  /\ [][(isRunning /\ ~aborted) =>
          /\ \A k \in CycleIds :
               CycleEnds(k) => pollTimer' = "armed" /\ timerDelay' = ConfiguredInterval
          /\ \A s \in StartIds :
               (starts[s].pc # "done" /\ starts'[s].pc = "done")
               => pollTimer' = "armed" /\ timerDelay' = ConfiguredInterval]_vars
  /\ []((isRunning /\ ~aborted) =>
          (TimerPending \/ ActiveCycles # {} \/ StartInFlight))
  /\ [](TimerPending => timerDelay = ConfiguredInterval)

\* A second cycle has ended, after an identity fetch that failed and a first
\* cycle that ended, and the timer for a third is armed.
C13_Witness ==
  /\ isRunning /\ ~aborted
  /\ robotWxid = Null
  /\ \A k \in CycleIds : cycles[k].pc = "done"
  /\ pollTimer = "armed"
  /\ op = "io"

\* --------------------------------------------------------------------- C14
\* C14: the seen-set is bounded: at the end of every poll cycle it holds no
\* more keys than the high-water mark.
C14_SeenSetBounded ==
  [][\A k \in CycleIds : CycleEnds(k) => Len(seenMessageIds') <= SeenHighWater]_vars

\* --------------------------------------------------------------------- C15
\* The host calls the handler has made so far.
Called(name) == \E i \in 1..Len(inbound.calls) : inbound.calls[i] = name

CallCount(name) == Cardinality({i \in 1..Len(inbound.calls) : inbound.calls[i] = name})

\* The handler has been called with a message.
Handled == inbound.pc \notin {"none", "idle"}

\* requireMention as the handler reads it: true when unset.
MentionRequired == inbound.deps.requireMention # <<FALSE>>

\* The sender, lower-cased, is among the allow-list entries once these are
\* stripped of a wechat:/wx: prefix and lower-cased.
SenderListed ==
  \E i \in 1..Len(inbound.deps.allowFrom) :
    LET entry == inbound.deps.allowFrom[i]
        bare == IF entry.prefix \in {"wechat:", "wx:", "WX:"} THEN "" ELSE entry.prefix
        lower(b) == IF b = "WXID_A" THEN "wxid_a" ELSE b
    IN bare = "" /\ lower(entry.body) = lower(inbound.msg.senderWxid.body)

\* C15: a group message that is no at-mention, with requireMention true or
\* unset, makes the handler return at once: no allow-list evaluation, no
\* pairing registration, no activity record, no routing, no reply dispatch,
\* no outbound send.
C15_MentionFilterFirst ==
  (/\ Handled
   /\ inbound.msg.chatType = "group"
   /\ ~inbound.msg.isAtMe
   /\ MentionRequired)
  => inbound.pc = "done" /\ inbound.calls = <<>>

\* The handler has returned for such a message whose sender is on the
\* allow-list of an open-policy account.
C15_Witness ==
  /\ Handled
  /\ inbound.msg.chatType = "group"
  /\ ~inbound.msg.isAtMe
  /\ inbound.deps.requireMention = <<>>
  /\ inbound.deps.dmPolicy = <<"open">>
  /\ SenderListed
  /\ inbound.pc = "done"

\* --------------------------------------------------------------------- C16
\* The handler's run has ended.
Returned == inbound.pc \in {"done", "rejected"}

\* The message gets past the hard mention filter.
PastMentionFilter ==
  ~(inbound.msg.chatType = "group" /\ ~inbound.msg.isAtMe /\ MentionRequired)

\* The reply pipeline was entered: routing or reply dispatch.
ReplyPipelineInvoked == Called("resolveAgentRoute") \/ Called("dispatchReplyFromConfig")

\* C16: for a message handled with dmPolicy "pairing" (set or by default)
\* whose sender is not on the allow-list, upsertPairingRequest is called
\* exactly once and neither routing nor dispatchReplyFromConfig is invoked.
C16_PairingRegisteredOnce ==
  (/\ Returned
   /\ PastMentionFilter
   /\ inbound.deps.dmPolicy \in {<<>>, <<"pairing">>}
   /\ ~SenderListed)
  => CallCount("upsertPairingRequest") = 1 /\ ~ReplyPipelineInvoked

\* --------------------------------------------------------------------- C17
\* C17: with dmPolicy "allowlist", a message delivered through the gateway
\* whose sender is not on the allow-list never reaches the reply pipeline, in
\* a direct chat or in a group chat.
C17_AllowlistKeepsOthersOut ==
  (/\ inbound.pc # "none"
   /\ inbound.viaGateway
   /\ inbound.deps.dmPolicy = <<"allowlist">>
   /\ ~SenderListed)
  => ~ReplyPipelineInvoked

\* --------------------------------------------------------------------- C18
\* C18: with dmPolicy "disabled" a direct message never reaches the reply
\* pipeline and produces no pairing request and no outbound send, whether
\* its sender is on the allow-list or not.
C18_DisabledDropsDirect ==
  (/\ inbound.pc # "none"
   /\ inbound.msg.chatType = "direct"
   /\ inbound.deps.dmPolicy = <<"disabled">>)
  => /\ ~ReplyPipelineInvoked
     /\ ~Called("upsertPairingRequest")
     /\ ~Called("sendMessageWeChat")

\* --------------------------------------------------------------------- C19
\* The account id the call is about: "default" when none is given.
SelectedAccount == IF tokenRun.accountId = <<>> THEN "default" ELSE tokenRun.accountId[1]

\* The credentials each source holds, "" when it holds none: an unset or
\* blank field, a missing, unreadable or blank file.
SelectedEntryToken ==
  IF SelectedAccount \in DOMAIN tokenRun.accounts
       /\ tokenRun.accounts[SelectedAccount].apiToken = <<" account-token ">>
  THEN "account-token" ELSE ""

SelectedEntryFileToken ==
  IF SelectedAccount \in DOMAIN tokenRun.accounts
       /\ tokenRun.accounts[SelectedAccount].tokenFile = <<" /account.token ">>
       /\ "/account.token" \in DOMAIN tokenRun.fs
       /\ tokenRun.fs["/account.token"] = <<" account-file-token ">>
  THEN "account-file-token" ELSE ""

BaseToken == IF tokenRun.base.apiToken = <<" base-token ">> THEN "base-token" ELSE ""

BaseFileToken ==
  IF tokenRun.base.tokenFile = <<" /base.token ">>
       /\ "/base.token" \in DOMAIN tokenRun.fs
       /\ tokenRun.fs["/base.token"] = <<" base-file-token ">>
  THEN "base-file-token" ELSE ""

EnvToken == IF tokenRun.env = <<" env-token ">> THEN "env-token" ELSE ""

\* C19: with no token in the account's entry, the base config or the
\* environment the result is {token: "", source: "none"}; and for a
\* non-default account id the result is never a token of the base-level
\* apiToken, the base-level tokenFile or WECHAT_API_TOKEN.
C19_NoTokenAndNoFallback ==
  tokenRun.pc = "returned" =>
    /\ (/\ SelectedEntryToken = "" /\ SelectedEntryFileToken = ""
        /\ BaseToken = "" /\ BaseFileToken = "" /\ EnvToken = "")
       => tokenRun.result = [token |-> "", source |-> "none"]
    /\ SelectedAccount # "default"
       => /\ tokenRun.result.token \notin {"base-token", "base-file-token", "env-token"}
          /\ tokenRun.result.source # "env"

\* A non-default account without an entry was resolved to no token while the
\* base token, the base token file and the environment all held one.
C19_Witness ==
  /\ tokenRun.pc = "returned"
  /\ SelectedAccount = "work"
  /\ BaseToken # "" /\ BaseFileToken # "" /\ EnvToken # ""
  /\ tokenRun.result = [token |-> "", source |-> "none"]

\* --------------------------------------------------------------------- C20
\* The first non-empty credential in the claimed order, with its tag.
FirstCredential ==
  IF SelectedEntryToken # "" THEN [token |-> SelectedEntryToken, source |-> "config"]
  ELSE IF SelectedEntryFileToken # ""
  THEN [token |-> SelectedEntryFileToken, source |-> "configFile"]
  ELSE IF SelectedAccount = "default" /\ BaseToken # ""
  THEN [token |-> BaseToken, source |-> "config"]
  ELSE IF SelectedAccount = "default" /\ BaseFileToken # ""
  THEN [token |-> BaseFileToken, source |-> "configFile"]
  ELSE IF SelectedAccount = "default" /\ EnvToken # ""
  THEN [token |-> EnvToken, source |-> "env"]
  ELSE [token |-> "", source |-> "none"]

\* C20: for the selected account, the default one included, the result is
\* the first non-empty credential in the order per-account token, per-account
\* token file, then for the default account only base token, base token
\* file, environment variable, tagged config, configFile or env; an
\* unreadable or blank token file falls through to the next source.
C20_FirstCredentialInOrder ==
  tokenRun.pc = "returned" => tokenRun.result = FirstCredential


\* ----------------------------------------------------------------- C21
RECURSIVE Concat(_)
Concat(ss) == IF ss = <<>> THEN <<>> ELSE Head(ss) \o Concat(Tail(ss))

NoWhitespace(s) == \A i \in 1..Len(s) : ~IsWhitespace(s[i])

\* The case of the claim: a text without whitespace, longer than a positive
\* limit.
ForcedBreakCase ==
  /\ chunkRun.pc # "none"
  /\ chunkRun.limit > 0
  /\ Len(chunkRun.text) > chunkRun.limit
  /\ NoWhitespace(chunkRun.text)

ForcedSlices ==
  (chunkRun.pc = "returned" /\ ForcedBreakCase) =>
    LET chunks == chunkRun.chunks
    IN /\ Len(chunks) >= 2
       /\ \A i \in 1..(Len(chunks) - 1) : Len(chunks[i]) = chunkRun.limit
       /\ Len(chunks[Len(chunks)]) \in 1..chunkRun.limit
       /\ Concat(chunks) = chunkRun.text

\* C21: for a text without whitespace that is longer than a positive limit
\* the chunker returns consecutive slices of exactly `limit` characters, the
\* last one possibly shorter and never empty, whose concatenation is the
\* text; and every call of the chunker returns.
C21_ForcedSlicesAndTermination ==
  /\ []ForcedSlices
  /\ <>(chunkRun.pc = "returned")

\* A text of three letters cut at limit 2: one full slice and a shorter one.
C21_Witness ==
  /\ chunkRun.pc = "returned"
  /\ ForcedBreakCase
  /\ chunkRun.limit = 2
  /\ Len(chunkRun.text) = 3
  /\ Len(chunkRun.chunks) = 2
  /\ Len(chunkRun.chunks[2]) = 1

\* ----------------------------------------------------------------- C22
\* C22: once the host has invoked stopAccount for an account whose poller
\* startAccount started, the poller begins no further poll cycle and invokes
\* the message callback no further time.
C22_StoppedAccountIsQuiet ==
  [][(gatewayRun.pc = "running" /\ gatewayRun.stopCalled)
       => (nCycles' = nCycles /\ delivered' = delivered)]_vars

\* ----------------------------------------------------------------- C23
RequestReturned == requestRun.pc = "returned"
RequestResult == requestRun.result[1]

\* The failures the claim lists, as far as they have happened.
TokenMissing == requestRun.apiToken = ""
TargetMissing == requestRun.fn = "send" /\ requestRun.toWxid = ""
BaseUrlMissing == requestRun.fn = "probe" /\ OrDefault(requestRun.baseUrl, "") = ""
ContentEmpty ==
  /\ requestRun.fn = "send"
  /\ requestRun.voiceFilePath = <<>> /\ requestRun.mediaUrl = <<>>
  /\ requestRun.text = ""
SomeRequestFailed ==
  \E i \in 1..Len(requestRun.requests) :
    requestRun.requests[i].outcome \notin {"ok", "pending"}

\* C23: sendMessageWeChat and probeWeChat never raise; a missing token, base
\* URL or target, empty content, an envelope code other than 200, a timeout
\* and a transport error each end in a result with ok = false and an error
\* string; no request is made when the token or the target is missing; and
\* ok = true is returned only when every request made was answered with
\* success.
C23_FailuresAreResults ==
  requestRun.pc # "none" =>
    /\ ~requestRun.raised
    /\ (TokenMissing \/ TargetMissing) => requestRun.requests = <<>>
    /\ RequestReturned =>
         /\ ~RequestResult.ok => RequestResult.error # <<>>
         /\ (TokenMissing \/ TargetMissing \/ BaseUrlMissing \/ ContentEmpty
               \/ SomeRequestFailed) => ~RequestResult.ok
         /\ RequestResult.ok =>
              /\ requestRun.requests # <<>>
              /\ \A i \in 1..Len(requestRun.requests) :
                   requestRun.requests[i].outcome = "ok"

\* An image goes out, the text after it is answered with an error envelope,
\* and the call returns a failure.
C23_Witness ==
  /\ requestRun.pc = "returned"
  /\ requestRun.fn = "send"
  /\ Len(requestRun.requests) = 2
  /\ requestRun.requests[1].outcome = "ok"
  /\ requestRun.requests[2].outcome = "envelope"
  /\ ~RequestResult.ok
  /\ RequestResult.error = <<"WeChatApiError">>

\* ----------------------------------------------------------------- C24
\* The poll cycles that are awaiting the message callback.
InCallback == {k \in CycleIds : cycles[k].pc = "deliver"}

\* C24: a poller never has two invocations of the message callback in flight
\* at the same time, under every interleaving of start(), stop() and timer
\* firings.
C24_OneCallbackInFlight == Cardinality(InCallback) <= 1

\* ----------------------------------------------------------------- C25
Prefix(s, n) == SubSeq(s, 1, IF n < Len(s) THEN n ELSE Len(s))

\* The resolution of the current cycle has returned.
Resolved == resolveRun.pc = "resolved" \/ (resolveRun.pc = "idle" /\ resolveRun.cycle > 0)

RoomsRequested == "chat_room" \in Range(resolveRun.requests)

\* The friends and the rooms the claim puts in the result.
FriendsPart ==
  IF resolveRun.friendsResponse.ok
  THEN Prefix(resolveRun.friendsResponse.data, MaxContacts(resolveRun.cfg))
  ELSE <<>>
RoomsPart ==
  IF resolveRun.roomsResponse.ok
  THEN Prefix(resolveRun.roomsResponse.data, MaxContacts(resolveRun.cfg) - Len(FriendsPart))
  ELSE <<>>

\* C25: in every cycle anew, a non-empty explicit list is returned verbatim
\* without any directory request; otherwise with poll-all the result is the
\* friends in backend order followed by the rooms, at most maxPollContacts
\* (default 50) in total, the rooms being requested only when capacity
\* remains, and a failed fetch leaves what was collected so far; otherwise
\* the result is empty; and a cycle with an empty result requests no history.
C25_ContactResolution ==
  (resolveRun.pc # "none" /\ Resolved) =>
    LET cfg == resolveRun.cfg
    IN /\ IF Len(cfg.pollContactIds) > 0
          THEN resolveRun.contactIds = cfg.pollContactIds /\ resolveRun.requests = <<>>
          ELSE IF cfg.pollAllContacts
          THEN /\ resolveRun.contactIds = FriendsPart \o RoomsPart
               /\ Len(resolveRun.contactIds) <= MaxContacts(cfg)
               /\ RoomsRequested =>
                    resolveRun.friendsResponse.ok /\ Len(FriendsPart) < MaxContacts(cfg)
          ELSE resolveRun.contactIds = <<>> /\ resolveRun.requests = <<>>
       /\ resolveRun.contactIds =
            resolveContactIds(cfg, resolveRun.friendsResponse, resolveRun.roomsResponse)
       /\ (resolveRun.pc = "idle" /\ resolveRun.contactIds = <<>>)
            => resolveRun.history = <<>>

\* The second cycle resolves three friends against a cap of two, after a
\* first cycle that resolved one friend and one room: two friends, no room
\* request.
C25_Witness ==
  /\ resolveRun.pc = "resolved"
  /\ resolveRun.cycle = 2
  /\ resolveRun.cfg.maxPollContacts = <<2>>
  /\ resolveRun.previous = <<"f1", "r2">>
  /\ resolveRun.friendsResponse = ApiOk(<<"f1", "f2", "f3">>)
  /\ resolveRun.contactIds = <<"f1", "f2">>
  /\ ~RoomsRequested

\* ----------------------------------------------------------------- C26
\* The items the claim keeps away from the callback.
Excluded(item) ==
  \/ item.message_source = "robot"
  \/ pageRun.robotWxid # Null /\ item.sender_wxid = pageRun.robotWxid
  \/ item.is_recalled
  \/ item.type # 1

\* C26: the message callback is never invoked, in the cycle that fetched it
\* or in any later one, for a history item that is marked robot-originated,
\* whose sender is the robot wxid fetched at startup, that is recalled, or
\* whose type is not 1.
C26_ExcludedNeverDelivered ==
  pageRun.pc # "none" =>
    \A item \in FilterItems : Excluded(item) => pageRun.delivered[item] = 0

\* The recalled item, evicted from the seen-set and still inside the window
\* because the callback threw in the earlier cycles, passes the seen and
\* window filter again in the third cycle and is dropped again.
C26_Witness ==
  /\ pageRun.pc = "idle"
  /\ pageRun.cycle = 3
  /\ \E item \in FilterItems :
       /\ item.is_recalled
       /\ pageRun.skipped[item] = 2
       /\ pageRun.delivered[item] = 0
  /\ \E item \in FilterItems : pageRun.delivered[item] > 0

\* ----------------------------------------------------------------- C27
\* The cycle k takes this step while fetching or delivering for contact c.
StepsFor(k, c) ==
  /\ cycles[k].pc \in {"fetch", "deliver"}
  /\ cycles'[k] # cycles[k]
  /\ cycles[k].contactIds[cycles[k].idx] = c

MaxCreatedAt(items) == MaxOf({items[i].created_at : i \in 1..Len(items)})

\* This step ends the successful processing of a non-empty page of contact c
\* and leaves the maximum created_at of the raw page in c's cursor.  The page
\* is held by the cycle record before the step when a callback was awaited,
\* and after it when the cycle goes on to another contact.
PageDone(c) ==
  \E k \in CycleIds :
    /\ StepsFor(k, c)
    /\ CursorOf(lastPollTimestamps', c) \in {it.created_at : it \in HistoryOf(c)}
    /\ cycles[k].pc = "deliver" =>
         /\ cycles[k].items # <<>>
         /\ CursorOf(lastPollTimestamps', c) = MaxCreatedAt(cycles[k].items)
    /\ cycles'[k].pc = "fetch" =>
         /\ cycles'[k].outcome = "ok"
         /\ cycles'[k].polled = c
         /\ cycles'[k].pos = Len(cycles'[k].newMessages)
         /\ cycles'[k].items # <<>>
         /\ CursorOf(lastPollTimestamps', c) = MaxCreatedAt(cycles'[k].items)

\* This step is the end of a start() that seeds the cursor of c with its
\* `now`.
Seeded(c) ==
  \E s \in StartIds :
    /\ starts[s].pc \in {"robotInfo", "resolve"}
    /\ starts'[s].pc = "done"
    /\ CursorOf(lastPollTimestamps', c) = starts'[s].now

\* A step in which cycle k leaves a contact with a failed fetch, a thrown
\* callback or an empty page, and goes on.
LeavesWithoutPage(k) ==
  /\ cycles[k].pc \in {"fetch", "deliver"}
  /\ cycles'[k] # cycles[k]
  /\ cycles'[k].pc = "fetch"
  /\ \/ cycles'[k].outcome \in {"failed", "threw"}
     \/ cycles'[k].outcome = "ok" /\ cycles'[k].items = <<>>

CursorChanges(c) == CursorOf(lastPollTimestamps', c) # CursorOf(lastPollTimestamps, c)

\* C27 (original): a contact's cursor is changed only at the end of
\* successfully processing a non-empty page for that contact, and then
\* becomes the maximum created_at of the raw page; a failed fetch, an empty
\* page and a throwing callback leave it as it was; processing one contact
\* never changes another contact's cursor.
C27_CursorOnlyAfterPage ==
  [][/\ \A c \in Contacts : CursorChanges(c) => PageDone(c)
     /\ \A k \in CycleIds :
          LeavesWithoutPage(k) => lastPollTimestamps' = lastPollTimestamps]_vars

\* C27 (amended): apart from start(), which seeds the cursor of every
\* resolved contact with its `now`, a contact's cursor is changed only at the
\* end of successfully processing a non-empty page for that contact, and then
\* becomes the maximum created_at of the raw page; a failed fetch, an empty
\* page and a throwing callback leave every cursor as it was; processing one
\* contact never changes another contact's cursor.
C27_CursorFrame ==
  [][/\ \A c \in Contacts : CursorChanges(c) => (Seeded(c) \/ PageDone(c))
     /\ \A k \in CycleIds :
          LeavesWithoutPage(k) => lastPollTimestamps' = lastPollTimestamps]_vars

\* The page of c1 has been processed and has moved c1's cursor from the
\* seeded 2 to 3, c2's cursor is as seeded, and the cycle goes on to c2.
C27_Witness ==
  \E k \in CycleIds :
    /\ cycles[k].pc = "fetch"
    /\ cycles[k].idx = 2
    /\ cycles[k].polled = "c1"
    /\ cycles[k].outcome = "ok"
    /\ Len(cycles[k].items) = 2
    /\ startedAt = 2
    /\ lastPollTimestamps = [c \in Contacts |-> IF c = "c1" THEN 3 ELSE 2]

\* ----------------------------------------------------------------- C28
\* C28 (original): every identity key held in the seen-set is the key of a
\* message that has already been delivered to the message callback.
C28_SeenKeysWereDelivered ==
  \A i \in 1..Len(seenMessageIds) : delivered[seenMessageIds[i]] > 0

\* The keys this step inserts into the seen-set.
InsertedKeys == Range(seenMessageIds') \ Range(seenMessageIds)

\* C28 (amended): every identity key held in the seen-set is the key of a
\* history item of that contact, inserted in the step that handles the
\* fetched page of that contact, whether or not the item is then delivered;
\* and every message delivered to the callback has its key in the seen-set
\* unless the trim has evicted it since.
C28_SeenKeysWereFetched ==
  /\ [](/\ \A i \in 1..Len(seenMessageIds) :
            \E it \in HistoryOf(seenMessageIds[i][1]) :
              it.msg_id = seenMessageIds[i][2]
        /\ \A key \in Keys :
             delivered[key] > 0 => (key \in Range(seenMessageIds) \/ evicted[key] > 0))
  /\ [][InsertedKeys # {} =>
         \E k \in CycleIds :
           /\ cycles[k].pc = "fetch"
           /\ cycles'[k] # cycles[k]
           /\ \A key \in InsertedKeys :
                key[1] = cycles[k].contactIds[cycles[k].idx]]_vars

\* The seen-set holds the key of a delivered message and the key of the
\* robot's own message, which came in the same page and was never delivered.
C28_Witness ==
  /\ delivered[<<"c1", 3>>] = 1
  /\ delivered[<<"c1", 1>>] = 0
  /\ seenMessageIds = << <<"c1", 3>>, <<"c1", 1>> >>

\* The context handed to the reply pipeline, when one was built.
HandedToPipeline == inbound.pc \notin {"none", "idle"} /\ inbound.ctx # <<>>

\* The context carries the trust tier the allow-list gives its sender, with
\* the body prefix and the capabilities of that tier.
TierMatchesAllowList ==
  LET ctx == inbound.ctx[1]
  IN /\ ctx.UserTrustLevel = IF SenderListed THEN <<"trusted">> ELSE <<"guest">>
     /\ ~SenderListed =>
          /\ ctx.BodyPrefix = OrDefault(inbound.deps.safetyPrefix, defaultSafetyPrefix)
          /\ ctx.AllowedCapabilities = <<{"chat"}>>
     /\ SenderListed => ctx.BodyPrefix = ""

\* C29: every message handed to the reply pipeline has trust tier "trusted"
\* exactly when its sender is on the normalized allow-list and "guest"
\* otherwise; a guest body is prefixed with the safety prefix and carries only
\* the chat capability, a trusted body is never prefixed; a message dropped
\* by policy or answered with a pairing request gets no trust tier.
C29_TrustTierFollowsAllowList ==
  /\ HandedToPipeline => TierMatchesAllowList
  /\ (Handled /\ ~Called("finalizeInboundContext")) => inbound.ctx = <<>>

\* The same for the handler of part_005 alone.
TrustTierInPart005 ==
  inbound.pc # "none" /\ inbound.version = "part_005" => C29_TrustTierFollowsAllowList

\* Cycle k sends a chat-history request in this step.
IssuesFetch(k) ==
  /\ cycles'[k].pc = "fetch"
  /\ cycles[k].pc # "fetch" \/ cycles'[k].idx # cycles[k].idx

\* The callback awaited by cycle k settles in this step.
CallbackSettles(k) ==
  cycles[k].pc = "deliver" /\ op' = "io" /\ cycles'[k] # cycles[k]

\* The callback of cycle k having settled, the next deliverable item of the
\* batch is handed to the callback, unless the callback threw.
BatchGoesOn(k) ==
  LET c == cycles[k]
      j == NextDeliverable(c.newMessages, c.pos + 1, robotWxid)
      key == MessageKey(c.polled, c.newMessages[j].msg_id)
  IN j > 0 =>
       \/ /\ cycles'[k].pc = "deliver" /\ cycles'[k].pos = j
          /\ delivered'[key] = delivered[key] + 1
       \/ /\ cycles'[k].pc # "deliver"
          /\ UNCHANGED <<delivered, lastPollTimestamps>>

\* The seen-set a cycle ending in this step leaves is a trimmed one: the
\* trim of the set as it was, or of the set with the keys of a page the
\* ending step has filtered.
TrimRuns(k) ==
  LET c == cycles[k]
  IN \/ seenMessageIds' = TrimSeen(seenMessageIds)
     \/ /\ c.pc = "fetch"
        /\ \E p \in Pages(c.contactIds[c.idx]) :
             seenMessageIds' =
               TrimSeen(FilterNew(p, c.contactIds[c.idx], seenMessageIds,
                                  CursorOf(lastPollTimestamps, c.contactIds[c.idx])).seen)

\* What the steps of a cycle in flight do, given that the cycle is winding
\* down (stop() or the abort ran during it).
WindsDown(k) ==
  /\ ~IssuesFetch(k)
  /\ CallbackSettles(k) => BatchGoesOn(k)
  /\ CycleEnds(k) =>
       /\ cycles[k].pc \in {"fetch", "deliver"} => TrimRuns(k)
       /\ UNCHANGED <<pollTimer, orphanTimers>>

\* C30: once stop() was called or the abort signal fired while a poll cycle
\* was in flight, that cycle sends no chat-history request for a contact it
\* has not started, still hands the remaining items of the current batch to
\* the callback, still trims the seen-set when it ends, and arms no timer
\* when it ends.
C30_InterruptedCycleWindsDown ==
  [][\A k \in CycleIds : k \in interrupted => WindsDown(k)]_vars

\* The same for the cycles the poller has not been started again under:
\* the running flag is still false, or the signal is aborted.
WindsDownUnlessRestarted ==
  [][\A k \in CycleIds :
       k \in interrupted /\ (~isRunning \/ aborted) /\ (~isRunning' \/ aborted')
         => WindsDown(k)]_vars
====
